---- MODULE Spec2Model ----
(***************************************************************************)
(* Options-chain proxy: the response cache (cache_manager.py), the symbol  *)
(* and date validators, the expiration filter and the options fetcher      *)
(* (api_utils.py) and the /api/v1/options/<symbol> endpoint (app.py).      *)
(*                                                                         *)
(* Strings are sequences of one-character strings ("2024-03-15" is         *)
(* <<"2","0","2","4","-","0","3","-","1","5">>), dates are records         *)
(* [year, month, day]; parsing and formatting convert between the two.     *)
(* A float is the double nearest to a decimal, kept as the decimal's       *)
(* digits; float() rounds it to zero or inf at the ends of the range and   *)
(* the comparisons with a strike round it to the nearest double.           *)
(* The clock `now` counts seconds; the date is read from it at each use,   *)
(* so a request that sleeps past midnight sees two dates.  The upstream    *)
(* provider (yfinance) is the environment: each attempt                    *)
(* nondeterministically raises, answers empty, or answers with data.       *)
(***************************************************************************)
EXTENDS Integers, Sequences, FiniteSets, TLC

\* ------------------------------------------------------------ constants

\* config.py: Config.CACHE_TIMEOUT, the time-to-live in seconds
CACHE_TIMEOUT == 300

\* api_utils.py: max_retries of the three retry loops
max_retries == 3

\* api_utils.py: time.sleep(1) after an attempt that answered empty
EMPTY_DELAY == 1

\* api_utils.py: time.sleep(2) after an attempt that raised
ERROR_DELAY == 2

\* api_utils.py: timedelta(days=30)
MIN_DAYS == 30

\* calendar.FRIDAY (weekdays count from Monday = 0)
FRIDAY == 4

\* ------------------------------------------------------------ calendar

\* A character is a string: the character itself up to U+00FF, and for a
\* character past U+00FF the name of its code point ("U+06F3").

Digits == <<"0", "1", "2", "3", "4", "5", "6", "7", "8", "9">>

DigitSet == {Digits[i] : i \in 1..10}

\* The decimal digits of Unicode past ASCII (str.isdecimal, the \d of re, the
\* digits int() and float() convert): each row is the code point of a zero
\* and the ten digits from it, 0 to 9
UNICODE_DIGITS == <<
    <<48, <<"U+0030", "U+0031", "U+0032", "U+0033", "U+0034",
        "U+0035", "U+0036", "U+0037", "U+0038", "U+0039">>>>,
    <<1632, <<"U+0660", "U+0661", "U+0662", "U+0663", "U+0664",
        "U+0665", "U+0666", "U+0667", "U+0668", "U+0669">>>>,
    <<1776, <<"U+06F0", "U+06F1", "U+06F2", "U+06F3", "U+06F4",
        "U+06F5", "U+06F6", "U+06F7", "U+06F8", "U+06F9">>>>,
    <<1984, <<"U+07C0", "U+07C1", "U+07C2", "U+07C3", "U+07C4",
        "U+07C5", "U+07C6", "U+07C7", "U+07C8", "U+07C9">>>>,
    <<2406, <<"U+0966", "U+0967", "U+0968", "U+0969", "U+096A",
        "U+096B", "U+096C", "U+096D", "U+096E", "U+096F">>>>,
    <<2534, <<"U+09E6", "U+09E7", "U+09E8", "U+09E9", "U+09EA",
        "U+09EB", "U+09EC", "U+09ED", "U+09EE", "U+09EF">>>>,
    <<2662, <<"U+0A66", "U+0A67", "U+0A68", "U+0A69", "U+0A6A",
        "U+0A6B", "U+0A6C", "U+0A6D", "U+0A6E", "U+0A6F">>>>,
    <<2790, <<"U+0AE6", "U+0AE7", "U+0AE8", "U+0AE9", "U+0AEA",
        "U+0AEB", "U+0AEC", "U+0AED", "U+0AEE", "U+0AEF">>>>,
    <<2918, <<"U+0B66", "U+0B67", "U+0B68", "U+0B69", "U+0B6A",
        "U+0B6B", "U+0B6C", "U+0B6D", "U+0B6E", "U+0B6F">>>>,
    <<3046, <<"U+0BE6", "U+0BE7", "U+0BE8", "U+0BE9", "U+0BEA",
        "U+0BEB", "U+0BEC", "U+0BED", "U+0BEE", "U+0BEF">>>>,
    <<3174, <<"U+0C66", "U+0C67", "U+0C68", "U+0C69", "U+0C6A",
        "U+0C6B", "U+0C6C", "U+0C6D", "U+0C6E", "U+0C6F">>>>,
    <<3302, <<"U+0CE6", "U+0CE7", "U+0CE8", "U+0CE9", "U+0CEA",
        "U+0CEB", "U+0CEC", "U+0CED", "U+0CEE", "U+0CEF">>>>,
    <<3430, <<"U+0D66", "U+0D67", "U+0D68", "U+0D69", "U+0D6A",
        "U+0D6B", "U+0D6C", "U+0D6D", "U+0D6E", "U+0D6F">>>>,
    <<3558, <<"U+0DE6", "U+0DE7", "U+0DE8", "U+0DE9", "U+0DEA",
        "U+0DEB", "U+0DEC", "U+0DED", "U+0DEE", "U+0DEF">>>>,
    <<3664, <<"U+0E50", "U+0E51", "U+0E52", "U+0E53", "U+0E54",
        "U+0E55", "U+0E56", "U+0E57", "U+0E58", "U+0E59">>>>,
    <<3792, <<"U+0ED0", "U+0ED1", "U+0ED2", "U+0ED3", "U+0ED4",
        "U+0ED5", "U+0ED6", "U+0ED7", "U+0ED8", "U+0ED9">>>>,
    <<3872, <<"U+0F20", "U+0F21", "U+0F22", "U+0F23", "U+0F24",
        "U+0F25", "U+0F26", "U+0F27", "U+0F28", "U+0F29">>>>,
    <<4160, <<"U+1040", "U+1041", "U+1042", "U+1043", "U+1044",
        "U+1045", "U+1046", "U+1047", "U+1048", "U+1049">>>>,
    <<4240, <<"U+1090", "U+1091", "U+1092", "U+1093", "U+1094",
        "U+1095", "U+1096", "U+1097", "U+1098", "U+1099">>>>,
    <<6112, <<"U+17E0", "U+17E1", "U+17E2", "U+17E3", "U+17E4",
        "U+17E5", "U+17E6", "U+17E7", "U+17E8", "U+17E9">>>>,
    <<6160, <<"U+1810", "U+1811", "U+1812", "U+1813", "U+1814",
        "U+1815", "U+1816", "U+1817", "U+1818", "U+1819">>>>,
    <<6470, <<"U+1946", "U+1947", "U+1948", "U+1949", "U+194A",
        "U+194B", "U+194C", "U+194D", "U+194E", "U+194F">>>>,
    <<6608, <<"U+19D0", "U+19D1", "U+19D2", "U+19D3", "U+19D4",
        "U+19D5", "U+19D6", "U+19D7", "U+19D8", "U+19D9">>>>,
    <<6784, <<"U+1A80", "U+1A81", "U+1A82", "U+1A83", "U+1A84",
        "U+1A85", "U+1A86", "U+1A87", "U+1A88", "U+1A89">>>>,
    <<6800, <<"U+1A90", "U+1A91", "U+1A92", "U+1A93", "U+1A94",
        "U+1A95", "U+1A96", "U+1A97", "U+1A98", "U+1A99">>>>,
    <<6992, <<"U+1B50", "U+1B51", "U+1B52", "U+1B53", "U+1B54",
        "U+1B55", "U+1B56", "U+1B57", "U+1B58", "U+1B59">>>>,
    <<7088, <<"U+1BB0", "U+1BB1", "U+1BB2", "U+1BB3", "U+1BB4",
        "U+1BB5", "U+1BB6", "U+1BB7", "U+1BB8", "U+1BB9">>>>,
    <<7232, <<"U+1C40", "U+1C41", "U+1C42", "U+1C43", "U+1C44",
        "U+1C45", "U+1C46", "U+1C47", "U+1C48", "U+1C49">>>>,
    <<7248, <<"U+1C50", "U+1C51", "U+1C52", "U+1C53", "U+1C54",
        "U+1C55", "U+1C56", "U+1C57", "U+1C58", "U+1C59">>>>,
    <<42528, <<"U+A620", "U+A621", "U+A622", "U+A623", "U+A624",
        "U+A625", "U+A626", "U+A627", "U+A628", "U+A629">>>>,
    <<43216, <<"U+A8D0", "U+A8D1", "U+A8D2", "U+A8D3", "U+A8D4",
        "U+A8D5", "U+A8D6", "U+A8D7", "U+A8D8", "U+A8D9">>>>,
    <<43264, <<"U+A900", "U+A901", "U+A902", "U+A903", "U+A904",
        "U+A905", "U+A906", "U+A907", "U+A908", "U+A909">>>>,
    <<43472, <<"U+A9D0", "U+A9D1", "U+A9D2", "U+A9D3", "U+A9D4",
        "U+A9D5", "U+A9D6", "U+A9D7", "U+A9D8", "U+A9D9">>>>,
    <<43504, <<"U+A9F0", "U+A9F1", "U+A9F2", "U+A9F3", "U+A9F4",
        "U+A9F5", "U+A9F6", "U+A9F7", "U+A9F8", "U+A9F9">>>>,
    <<43600, <<"U+AA50", "U+AA51", "U+AA52", "U+AA53", "U+AA54",
        "U+AA55", "U+AA56", "U+AA57", "U+AA58", "U+AA59">>>>,
    <<44016, <<"U+ABF0", "U+ABF1", "U+ABF2", "U+ABF3", "U+ABF4",
        "U+ABF5", "U+ABF6", "U+ABF7", "U+ABF8", "U+ABF9">>>>,
    <<65296, <<"U+FF10", "U+FF11", "U+FF12", "U+FF13", "U+FF14",
        "U+FF15", "U+FF16", "U+FF17", "U+FF18", "U+FF19">>>>,
    <<66720, <<"U+104A0", "U+104A1", "U+104A2", "U+104A3", "U+104A4",
        "U+104A5", "U+104A6", "U+104A7", "U+104A8", "U+104A9">>>>,
    <<68912, <<"U+10D30", "U+10D31", "U+10D32", "U+10D33", "U+10D34",
        "U+10D35", "U+10D36", "U+10D37", "U+10D38", "U+10D39">>>>,
    <<69734, <<"U+11066", "U+11067", "U+11068", "U+11069", "U+1106A",
        "U+1106B", "U+1106C", "U+1106D", "U+1106E", "U+1106F">>>>,
    <<69872, <<"U+110F0", "U+110F1", "U+110F2", "U+110F3", "U+110F4",
        "U+110F5", "U+110F6", "U+110F7", "U+110F8", "U+110F9">>>>,
    <<69942, <<"U+11136", "U+11137", "U+11138", "U+11139", "U+1113A",
        "U+1113B", "U+1113C", "U+1113D", "U+1113E", "U+1113F">>>>,
    <<70096, <<"U+111D0", "U+111D1", "U+111D2", "U+111D3", "U+111D4",
        "U+111D5", "U+111D6", "U+111D7", "U+111D8", "U+111D9">>>>,
    <<70384, <<"U+112F0", "U+112F1", "U+112F2", "U+112F3", "U+112F4",
        "U+112F5", "U+112F6", "U+112F7", "U+112F8", "U+112F9">>>>,
    <<70736, <<"U+11450", "U+11451", "U+11452", "U+11453", "U+11454",
        "U+11455", "U+11456", "U+11457", "U+11458", "U+11459">>>>,
    <<70864, <<"U+114D0", "U+114D1", "U+114D2", "U+114D3", "U+114D4",
        "U+114D5", "U+114D6", "U+114D7", "U+114D8", "U+114D9">>>>,
    <<71248, <<"U+11650", "U+11651", "U+11652", "U+11653", "U+11654",
        "U+11655", "U+11656", "U+11657", "U+11658", "U+11659">>>>,
    <<71360, <<"U+116C0", "U+116C1", "U+116C2", "U+116C3", "U+116C4",
        "U+116C5", "U+116C6", "U+116C7", "U+116C8", "U+116C9">>>>,
    <<71472, <<"U+11730", "U+11731", "U+11732", "U+11733", "U+11734",
        "U+11735", "U+11736", "U+11737", "U+11738", "U+11739">>>>,
    <<71904, <<"U+118E0", "U+118E1", "U+118E2", "U+118E3", "U+118E4",
        "U+118E5", "U+118E6", "U+118E7", "U+118E8", "U+118E9">>>>,
    <<72016, <<"U+11950", "U+11951", "U+11952", "U+11953", "U+11954",
        "U+11955", "U+11956", "U+11957", "U+11958", "U+11959">>>>,
    <<72784, <<"U+11C50", "U+11C51", "U+11C52", "U+11C53", "U+11C54",
        "U+11C55", "U+11C56", "U+11C57", "U+11C58", "U+11C59">>>>,
    <<73040, <<"U+11D50", "U+11D51", "U+11D52", "U+11D53", "U+11D54",
        "U+11D55", "U+11D56", "U+11D57", "U+11D58", "U+11D59">>>>,
    <<73120, <<"U+11DA0", "U+11DA1", "U+11DA2", "U+11DA3", "U+11DA4",
        "U+11DA5", "U+11DA6", "U+11DA7", "U+11DA8", "U+11DA9">>>>,
    <<92768, <<"U+16A60", "U+16A61", "U+16A62", "U+16A63", "U+16A64",
        "U+16A65", "U+16A66", "U+16A67", "U+16A68", "U+16A69">>>>,
    <<92864, <<"U+16AC0", "U+16AC1", "U+16AC2", "U+16AC3", "U+16AC4",
        "U+16AC5", "U+16AC6", "U+16AC7", "U+16AC8", "U+16AC9">>>>,
    <<93008, <<"U+16B50", "U+16B51", "U+16B52", "U+16B53", "U+16B54",
        "U+16B55", "U+16B56", "U+16B57", "U+16B58", "U+16B59">>>>,
    <<120782, <<"U+1D7CE", "U+1D7CF", "U+1D7D0", "U+1D7D1", "U+1D7D2",
        "U+1D7D3", "U+1D7D4", "U+1D7D5", "U+1D7D6", "U+1D7D7">>>>,
    <<120792, <<"U+1D7D8", "U+1D7D9", "U+1D7DA", "U+1D7DB", "U+1D7DC",
        "U+1D7DD", "U+1D7DE", "U+1D7DF", "U+1D7E0", "U+1D7E1">>>>,
    <<120802, <<"U+1D7E2", "U+1D7E3", "U+1D7E4", "U+1D7E5", "U+1D7E6",
        "U+1D7E7", "U+1D7E8", "U+1D7E9", "U+1D7EA", "U+1D7EB">>>>,
    <<120812, <<"U+1D7EC", "U+1D7ED", "U+1D7EE", "U+1D7EF", "U+1D7F0",
        "U+1D7F1", "U+1D7F2", "U+1D7F3", "U+1D7F4", "U+1D7F5">>>>,
    <<120822, <<"U+1D7F6", "U+1D7F7", "U+1D7F8", "U+1D7F9", "U+1D7FA",
        "U+1D7FB", "U+1D7FC", "U+1D7FD", "U+1D7FE", "U+1D7FF">>>>,
    <<123200, <<"U+1E140", "U+1E141", "U+1E142", "U+1E143", "U+1E144",
        "U+1E145", "U+1E146", "U+1E147", "U+1E148", "U+1E149">>>>,
    <<123632, <<"U+1E2F0", "U+1E2F1", "U+1E2F2", "U+1E2F3", "U+1E2F4",
        "U+1E2F5", "U+1E2F6", "U+1E2F7", "U+1E2F8", "U+1E2F9">>>>,
    <<125264, <<"U+1E950", "U+1E951", "U+1E952", "U+1E953", "U+1E954",
        "U+1E955", "U+1E956", "U+1E957", "U+1E958", "U+1E959">>>>,
    <<130032, <<"U+1FBF0", "U+1FBF1", "U+1FBF2", "U+1FBF3", "U+1FBF4",
        "U+1FBF5", "U+1FBF6", "U+1FBF7", "U+1FBF8", "U+1FBF9">>>>>>

UnicodeDigitSet ==
    UNION {{UNICODE_DIGITS[r][2][i] : i \in 1..10} : r \in 1..Len(UNICODE_DIGITS)}

\* \d: a decimal digit of any script
DecimalSet == DigitSet \cup UnicodeDigitSet

\* The row of UNICODE_DIGITS a digit past ASCII is in
UnicodeRow(c) ==
    CHOOSE r \in 1..Len(UNICODE_DIGITS) : \E i \in 1..10 : UNICODE_DIGITS[r][2][i] = c

\* The value of a decimal digit
DigitVal(c) ==
    IF c \in DigitSet THEN (CHOOSE i \in 1..10 : Digits[i] = c) - 1
    ELSE (CHOOSE i \in 1..10 : UNICODE_DIGITS[UnicodeRow(c)][2][i] = c) - 1

IsLeap(y) == (y % 4 = 0) /\ ((y % 100 # 0) \/ (y % 400 = 0))

DAYS_IN_MONTH == <<31, 28, 31, 30, 31, 30, 31, 31, 30, 31, 30, 31>>

DaysInMonth(y, m) == IF m = 2 /\ IsLeap(y) THEN 29 ELSE DAYS_IN_MONTH[m]

RECURSIVE DaysBeforeMonth(_, _)
DaysBeforeMonth(y, m) ==
    IF m = 1 THEN 0 ELSE DaysBeforeMonth(y, m - 1) + DaysInMonth(y, m - 1)

DaysBeforeYear(y) ==
    (y - 1) * 365 + ((y - 1) \div 4) - ((y - 1) \div 100) + ((y - 1) \div 400)

\* date.toordinal(): 0001-01-01 is day 1
ToOrdinal(d) == DaysBeforeYear(d.year) + DaysBeforeMonth(d.year, d.month) + d.day

\* date.fromordinal(n), as datetime._ord2ymd computes it
FromOrdinal(n0) ==
    LET n    == n0 - 1
        n400 == n \div 146097
        r400 == n % 146097
        n100 == r400 \div 36524
        r100 == r400 % 36524
        n4   == r100 \div 1461
        r4   == r100 % 1461
        n1   == r4 \div 365
        r1   == r4 % 365
        y    == n400 * 400 + 1 + n100 * 100 + n4 * 4 + n1
    IN  IF n1 = 4 \/ n100 = 4
        THEN [year |-> y - 1, month |-> 12, day |-> 31]
        ELSE LET m0   == (r1 + 50) \div 32
                 pre0 == DaysBeforeMonth(y, m0)
                 m    == IF pre0 > r1 THEN m0 - 1 ELSE m0
                 pre  == DaysBeforeMonth(y, m)
             IN  [year |-> y, month |-> m, day |-> r1 - pre + 1]

\* date.weekday(): Monday = 0 ... Sunday = 6
Weekday(d) == (ToOrdinal(d) + 6) % 7

\* date + timedelta(days=k)
AddDays(d, k) == FromOrdinal(ToOrdinal(d) + k)

\* date < date, date >= date
DateLess(a, b) == ToOrdinal(a) < ToOrdinal(b)

\* calendar.monthcalendar(year, month): the weeks of the month, Monday first,
\* a day outside the month is 0
monthcalendar(y, m) ==
    LET w1     == Weekday([year |-> y, month |-> m, day |-> 1])
        ndays  == DaysInMonth(y, m)
        nweeks == (w1 + ndays + 6) \div 7
        dayAt(i, j) == (i - 1) * 7 + j - w1
    IN  [i \in 1..nweeks |->
            [j \in 1..7 |-> IF dayAt(i, j) \in 1..ndays THEN dayAt(i, j) ELSE 0]]

is_third_fridaySecond(date) ==
    LET c       == monthcalendar(date.year, date.month)
        fridays == SelectSeq([i \in 1..Len(c) |-> c[i][FRIDAY + 1]], LAMBDA x : x # 0)
        third_friday == fridays[2]
    IN  date.day = third_friday

\* is_third_friday(date)
is_third_friday(date) ==
    LET c       == monthcalendar(date.year, date.month)
        fridays == SelectSeq([i \in 1..Len(c) |-> c[i][FRIDAY + 1]], LAMBDA x : x # 0)
        third_friday == fridays[3]
    IN  date.day = third_friday

\* ------------------------------------------------------------ outcomes

\* A call returns a value or raises.  An optional value is a sequence of
\* length 0 (None) or 1.
Return(v) == [kind |-> "return", value |-> v]

\* A raised ValueError.  str(e) is msg followed by detail, the part of the
\* message that is taken from the data.
ValueErrorWith(msg, detail) ==
    [kind |-> "raise", exc |-> "ValueError", msg |-> msg, detail |-> detail]

ValueError(msg) == ValueErrorWith(msg, << >>)

NoneVal == << >>

Some(v) == <<v>>

\* The least element of a set of numbers, 0 for the empty set
MinOrZero(S) == IF S = {} THEN 0 ELSE CHOOSE i \in S : \A j \in S : i <= j

\* The position of the first element of s that is in `chars`, 0 for none
FirstIndex(s, chars) == MinOrZero({i \in 1..Len(s) : s[i] \in chars})

\* ------------------------------------------------------------ date strings

RECURSIVE NumVal(_)
NumVal(s) ==
    IF Len(s) = 0 THEN 0
    ELSE NumVal(SubSeq(s, 1, Len(s) - 1)) * 10 + DigitVal(s[Len(s)])

\* Every character of s matches \d
AllDigits(s) == \A i \in 1..Len(s) : s[i] \in DecimalSet

\* The decimal digits among the characters of s
DigitsOf(s) == SelectSeq(s, LAMBDA c : c \in DecimalSet)

\* The character of s at position i, "" past the end
At(s, i) == IF i \in 1..Len(s) THEN s[i] ELSE ""

NonZeroDigits == DigitSet \ {"0"}

\* The regular expression strptime compiles for '%Y-%m-%d' is
\*   (\d\d\d\d)-(1[0-2]|0[1-9]|[1-9])-(3[0-1]|[1-2]\d|0[1-9]|[1-9]| [1-9])
\* and it is matched at the start of the string; \d is a decimal digit of any
\* script, a digit written out is that ASCII digit.  The length of the %m group
\* at position p: the first alternative that is followed by "-", 0 for none.
MonthLen(s, p) ==
    LET a == At(s, p)
        b == At(s, p + 1)
        c == At(s, p + 2)
    IN  IF a = "1" /\ b \in {"0", "1", "2"} /\ c = "-" THEN 2
        ELSE IF a = "0" /\ b \in NonZeroDigits /\ c = "-" THEN 2
        ELSE IF a \in NonZeroDigits /\ b = "-" THEN 1
        ELSE 0

\* The length of the %d group at position p: the first alternative that
\* matches, 0 for none
DayLen(s, p) ==
    LET a == At(s, p)
        b == At(s, p + 1)
    IN  IF a = "3" /\ b \in {"0", "1"} THEN 2
        ELSE IF a \in {"1", "2"} /\ b \in DecimalSet THEN 2
        ELSE IF a = "0" /\ b \in NonZeroDigits THEN 2
        ELSE IF a \in NonZeroDigits THEN 1
        ELSE IF a = " " /\ b \in NonZeroDigits THEN 2
        ELSE 0

\* "time data '<s>' does not match format '%Y-%m-%d'"
no_match(s) == ValueErrorWith("time data does not match format", s)

\* datetime(year, month, day) of the matched groups: year 0 and a day past the
\* end of the month raise
strptime_date(y, m, d) ==
    IF y = 0 THEN ValueError("year 0 is out of range")
    ELSE IF d > DaysInMonth(y, m) THEN ValueError("day is out of range for month")
    ELSE Return([year |-> y, month |-> m, day |-> d])

\* The %m group of s has m characters and the %d group d: the match ends at
\* 6 + m + d, and what follows it is "unconverted data"
strptime_day(s, m, d) ==
    IF d = 0 THEN no_match(s)
    ELSE IF 6 + m + d < Len(s)
    THEN ValueErrorWith("unconverted data remains: ", SubSeq(s, 7 + m + d, Len(s)))
    ELSE strptime_date(NumVal(SubSeq(s, 1, 4)), NumVal(SubSeq(s, 6, 5 + m)),
                       NumVal(DigitsOf(SubSeq(s, 7 + m, 6 + m + d))))

\* The %m group of s has m characters
strptime_month(s, m) ==
    IF m = 0 THEN no_match(s) ELSE strptime_day(s, m, DayLen(s, 7 + m))

\* datetime.strptime(s, '%Y-%m-%d').date(): the date, or the ValueError raised
\*   "time data '<s>' does not match format '%Y-%m-%d'",
\*   "unconverted data remains: <rest>", "year 0 is out of range" or
\*   "day is out of range for month"
strptime_outcome(s) ==
    IF Len(s) >= 5 /\ AllDigits(SubSeq(s, 1, 4)) /\ s[5] = "-"
    THEN strptime_month(s, MonthLen(s, 6))
    ELSE no_match(s)

\* Whether datetime.strptime(s, '%Y-%m-%d') returns
strptime_ok(s) == strptime_outcome(s).kind = "return"

\* datetime.strptime(s, '%Y-%m-%d').date(), where strptime_ok(s)
strptime(s) == strptime_outcome(s).value

\* The decimal digits of n, zero-padded to `width` characters
RECURSIVE Pad(_, _)
Pad(n, width) ==
    IF width = 0 THEN << >>
    ELSE Pad(n \div 10, width - 1) \o <<Digits[(n % 10) + 1]>>

\* The decimal digits of a natural number, the most significant first
RECURSIVE Decimal(_)
Decimal(n) == IF n < 10 THEN <<n>> ELSE Append(Decimal(n \div 10), n % 10)

\* date.strftime('%Y-%m-%d'): the C library's strftime writes %Y as the
\* year's digits, with no zeros before a year below 1000, and %m and %d as
\* two digits
strftime(d) ==
    [i \in 1..Len(Decimal(d.year)) |-> Digits[Decimal(d.year)[i] + 1]]
        \o <<"-">> \o Pad(d.month, 2) \o <<"-">> \o Pad(d.day, 2)

UpperLetters == <<"A", "B", "C", "D", "E", "F", "G", "H", "I", "J", "K", "L", "M",
                  "N", "O", "P", "Q", "R", "S", "T", "U", "V", "W", "X", "Y", "Z">>

LowerLetters == <<"a", "b", "c", "d", "e", "f", "g", "h", "i", "j", "k", "l", "m",
                  "n", "o", "p", "q", "r", "s", "t", "u", "v", "w", "x", "y", "z">>

UpperSet == {UpperLetters[i] : i \in 1..26}

LowerSet == {LowerLetters[i] : i \in 1..26}

IndexIn(c, letters) == CHOOSE i \in 1..Len(letters) : letters[i] = c

\* ord(c) of the characters the model's strings are made of
CharCode(c) ==
    IF c \in DigitSet THEN 48 + DigitVal(c)
    ELSE IF c \in UnicodeDigitSet THEN UNICODE_DIGITS[UnicodeRow(c)][1] + DigitVal(c)
    ELSE IF c \in UpperSet THEN 64 + IndexIn(c, UpperLetters)
    ELSE IF c \in LowerSet THEN 96 + IndexIn(c, LowerLetters)
    ELSE CASE c = "\n" -> 10
           [] c = "-"  -> 45
           [] c = "."  -> 46
           [] c = ":"  -> 58
           [] c = "_"  -> 95
           [] c = "|"  -> 124

\* str < str: lexicographic by code point, a proper prefix first
RECURSIVE StrLess(_, _)
StrLess(a, b) ==
    IF Len(b) = 0 THEN FALSE
    ELSE IF Len(a) = 0 THEN TRUE
    ELSE IF a[1] # b[1] THEN CharCode(a[1]) < CharCode(b[1])
    ELSE StrLess(Tail(a), Tail(b))

\* sorted(list of str): stable insertion sort
RECURSIVE InsertSorted(_, _)
InsertSorted(x, s) ==
    IF Len(s) = 0 THEN <<x>>
    ELSE IF StrLess(x, s[1]) THEN <<x>> \o s
    ELSE <<s[1]>> \o InsertSorted(x, Tail(s))

RECURSIVE sorted(_)
sorted(s) ==
    IF Len(s) = 0 THEN << >>
    ELSE InsertSorted(s[Len(s)], sorted(SubSeq(s, 1, Len(s) - 1)))

\* ------------------------------------------------------------ response cache

\* sorted(kwargs.items()): the pairs <<name, value>> ordered by name
RECURSIVE InsertItem(_, _)
InsertItem(x, s) ==
    IF Len(s) = 0 THEN <<x>>
    ELSE IF StrLess(x[1], s[1][1]) THEN <<x>> \o s
    ELSE <<s[1]>> \o InsertItem(x, Tail(s))

RECURSIVE SortedItems(_)
SortedItems(kw) ==
    IF Len(kw) = 0 THEN << >>
    ELSE InsertItem(kw[Len(kw)], SortedItems(SubSeq(kw, 1, Len(kw) - 1)))

\* "|".join(parts)
RECURSIVE Join(_)
Join(parts) ==
    IF Len(parts) = 0 THEN << >>
    ELSE IF Len(parts) = 1 THEN parts[1]
    ELSE parts[1] \o <<"|">> \o Join(Tail(parts))

\* CacheManager.cache_key(func, *args, **kwargs): the function's name, str() of
\* each positional argument and "k:v" of each keyword argument in name order,
\* joined by "|".  The md5 hex digest of that string is modelled by the string
\* itself (digest collisions are outside the model).
cache_key(func, args, kwargs) ==
    LET items == SortedItems(kwargs)
        key_parts == <<func>> \o args
                     \o [i \in 1..Len(items) |-> items[i][1] \o <<":">> \o items[i][2]]
    IN  Join(key_parts)

\* ------------------------------------------------------------ api_utils.py

\* filter_valid_expirations, "for exp in expirations": the strings left to
\* parse and the valid_dates so far.  A string strptime refuses ends the call
\* with strptime's ValueError; after the last string the list is sorted.
RECURSIVE filter_loop(_, _, _)
RECURSIVE filter_step(_, _, _, _)
filter_loop(expirations, min_date, valid_dates) ==
    IF expirations = << >> THEN Return(sorted(valid_dates))
    ELSE filter_step(expirations, min_date, valid_dates, strptime_outcome(Head(expirations)))

\* One pass of the loop, where strptime ended in `parsed`
filter_step(expirations, min_date, valid_dates, parsed) ==
    IF parsed.kind = "raise" THEN parsed
    ELSE filter_loop(Tail(expirations), min_date,
                     IF ~DateLess(parsed.value, min_date) /\ is_third_friday(parsed.value)
                     THEN Append(valid_dates, Head(expirations))
                     ELSE valid_dates)

\* filter_valid_expirations(expirations), with today = datetime.now().date()
filter_valid_expirations(expirations, today_) ==
    filter_loop(expirations, AddDays(today_, MIN_DAYS), << >>)

\* str.upper() on the characters of symbols
upper(s) ==
    [i \in 1..Len(s) |->
        IF s[i] \in LowerSet THEN UpperLetters[IndexIn(s[i], LowerLetters)] ELSE s[i]]

\* validate_symbol, the format check: not symbol or not re.match(r'^[A-Z]{1,5}$', symbol).
\* "$" matches at the end of the string and also before a newline that ends it.
symbol_format_ok(symbol) ==
    LET core == IF Len(symbol) > 0 /\ symbol[Len(symbol)] = "\n"
                THEN SubSeq(symbol, 1, Len(symbol) - 1) ELSE symbol
    IN  /\ Len(symbol) > 0
        /\ Len(core) \in 1..5
        /\ \A i \in 1..Len(core) : core[i] \in UpperSet

\* Whether pat occurs in the sequence s
Contains(s, pat) ==
    \E i \in 1..(Len(s) - Len(pat) + 1) : SubSeq(s, i, i + Len(pat) - 1) = pat

\* `"time data" in str(e)`, for the messages strptime raises: the text of the
\* format mismatch has it, and so has any message whose data has it
time_data_in(e) ==
    \/ e.msg = "time data does not match format"
    \/ Contains(e.detail, <<"t", "i", "m", "e", " ", "d", "a", "t", "a">>)

validate_dateExclusive(date_str, today_) ==
    IF ~strptime_ok(date_str)
    THEN IF time_data_in(strptime_outcome(date_str))
         THEN ValueError("Invalid date format. Use YYYY-MM-DD")
         ELSE strptime_outcome(date_str)
    ELSE LET date == strptime(date_str)
             min_date == AddDays(today_, MIN_DAYS)
         IN  IF DateLess(date, today_)
             THEN ValueError("Expiration date cannot be in the past")
             ELSE IF ~DateLess(min_date, date)
             THEN ValueError("Expiration date must be at least 30 days in the future")
             ELSE IF ~is_third_friday(date)
             THEN ValueError("Only monthly options (third Friday of each month) are supported")
             ELSE Return(date)

\* validate_date, the checks on the parsed date
check_date(date, today_) ==
    IF DateLess(date, today_)
    THEN ValueError("Expiration date cannot be in the past")
    ELSE IF DateLess(date, AddDays(today_, MIN_DAYS))
    THEN ValueError("Expiration date must be at least 30 days in the future")
    ELSE IF ~is_third_friday(date)
    THEN ValueError("Only monthly options (third Friday of each month) are supported")
    ELSE Return(date)

\* validate_date where strptime ended in `parsed`: a ValueError of strptime
\* whose text has "time data" becomes "Invalid date format"; any other is
\* raised again with the same text
validate_parsed(parsed, today_) ==
    IF parsed.kind = "raise"
    THEN IF time_data_in(parsed)
         THEN ValueError("Invalid date format. Use YYYY-MM-DD")
         ELSE parsed
    ELSE check_date(parsed.value, today_)

\* validate_date(date_str), with today = datetime.now().date()
validate_date(date_str, today_) == validate_parsed(strptime_outcome(date_str), today_)

\* x in list
InSeq(x, s) == \E i \in 1..Len(s) : s[i] = x

\* min(dates) of a non-empty list of dates
MinDate(dates) ==
    dates[CHOOSE i \in 1..Len(dates) :
              \A j \in 1..Len(dates) : ~DateLess(dates[j], dates[i])]

\* get_options_chain, "Handle expiration date selection": expiration is an
\* optional date; the result is the exp_date string or the ValueError raised
select_expiration(valid_expirations, expiration) ==
    IF expiration # NoneVal
    THEN LET exp_date == strftime(expiration[1])
         IN  IF ~InSeq(exp_date, valid_expirations)
             THEN LET available_dates ==
                          [i \in 1..Len(valid_expirations) |-> strptime(valid_expirations[i])]
                      future_dates ==
                          SelectSeq(available_dates, LAMBDA d : ~DateLess(d, expiration[1]))
                  IN  IF future_dates = << >>
                      THEN ValueError("No valid monthly options available for or after")
                      ELSE Return(strftime(MinDate(future_dates)))
             ELSE Return(exp_date)
    ELSE Return(valid_expirations[1])

\* get_options_chain between the two retry loops, where the monthly filter
\* ended in `filtered`: an empty list raises, else the expiration is selected
resolve_expiration(filtered, expiration) ==
    IF filtered.kind = "raise" THEN filtered
    ELSE IF filtered.value = << >>
    THEN ValueError("No valid monthly options available (at least 30 days out)")
    ELSE select_expiration(filtered.value, expiration)

\* ------------------------------------------------------------ float

\* Characters TLA+ has no escape for, written as themselves: '\x0b', '\x85'
\* and '\xa0'
VT == ""

NEL == ""

NBSP == " "

\* Py_ISSPACE, the whitespace float() skips at both ends of an ASCII text:
\* ' ', '\t', '\n', '\x0b', '\x0c' and '\r'
ASCII_SPACE == {" ", "\t", "\n", VT, "\f", "\r"}

\* Py_UNICODE_ISSPACE past ASCII: the whitespace characters of Unicode from
\* U+007F on
UNICODE_SPACE ==
    {NEL, NBSP, "U+1680", "U+2000", "U+2001", "U+2002", "U+2003",
     "U+2004", "U+2005", "U+2006", "U+2007", "U+2008", "U+2009",
     "U+200A", "U+2028", "U+2029", "U+202F", "U+205F", "U+3000"}

\* float() of a string reads a copy in which every whitespace character past
\* ASCII is " " and every decimal digit past ASCII is the ASCII digit of its
\* value (_PyUnicode_TransformDecimalAndSpaceToASCII); '\x1c' to '\x1f' are
\* whitespace of Unicode in ASCII and stay as they are.  The copy ends with
\* "?" at any other character past ASCII; the number grammar refuses that
\* character as it refuses "?".
to_ascii(s) ==
    [i \in 1..Len(s) |->
        IF s[i] \in UNICODE_SPACE THEN " "
        ELSE IF s[i] \in UnicodeDigitSet THEN Digits[DigitVal(s[i]) + 1]
        ELSE s[i]]

RECURSIVE lstrip(_)
lstrip(s) ==
    IF Len(s) > 0 /\ s[1] \in ASCII_SPACE THEN lstrip(Tail(s)) ELSE s

RECURSIVE rstrip(_)
rstrip(s) ==
    IF Len(s) > 0 /\ s[Len(s)] \in ASCII_SPACE
    THEN rstrip(SubSeq(s, 1, Len(s) - 1)) ELSE s

\* The text between the whitespace float() skips
strip(s) == rstrip(lstrip(s))

\* The text after an optional sign
Unsigned(s) == IF Len(s) > 0 /\ s[1] \in {"+", "-"} THEN Tail(s) ELSE s

\* -1 for a leading "-", else 1
SignOf(s) == IF Len(s) > 0 /\ s[1] = "-" THEN -1 ELSE 1

\* digit (["_"] digit)*: digits with single underscores between them
digitpart_ok(s) ==
    /\ Len(s) > 0
    /\ \A i \in 1..Len(s) : s[i] \in DigitSet \cup {"_"}
    /\ s[1] # "_" /\ s[Len(s)] # "_"
    /\ \A i \in 1..(Len(s) - 1) : ~(s[i] = "_" /\ s[i + 1] = "_")

\* A float is a record [kind, neg, digits, exp].  A finite float is the
\* double nearest to the decimal 0.d1 d2 ... dn * 10^exp, where d1 ... dn are
\* `digits` (numbers 0..9, the first and the last not 0), negated when `neg`;
\* zero has no digits, and -0.0 is the zero with `neg`.  Two records of
\* different decimals can be one double: the comparisons below round.
Nan == [kind |-> "nan", neg |-> FALSE, digits |-> << >>, exp |-> 0]

Inf(neg) == [kind |-> "inf", neg |-> neg, digits |-> << >>, exp |-> 0]

Finite(neg, digits, exp) == [kind |-> "finite", neg |-> neg, digits |-> digits, exp |-> exp]

\* The greatest element of a set of numbers, 0 for the empty set
MaxOrZero(S) == IF S = {} THEN 0 ELSE CHOOSE i \in S : \A j \in S : i >= j

\* a < b for sequences of digits, the first difference deciding and a proper
\* prefix first: the order of 0.a and 0.b
SeqLess(a, b) ==
    \/ \E d \in 1..(IF Len(a) < Len(b) THEN Len(a) ELSE Len(b)) :
           a[d] < b[d] /\ SubSeq(a, 1, d - 1) = SubSeq(b, 1, d - 1)
    \/ Len(a) < Len(b) /\ a = SubSeq(b, 1, Len(a))

\* Half of 0.s and twice the whole number s, digit by digit: a digit of the
\* half takes 5 from an odd digit before it, a digit of the double takes 1
\* from a digit of 5 or more after it
Half(s) ==
    SubSeq([i \in 1..(Len(s) + 1) |->
               ((IF i > 1 /\ s[i - 1] % 2 = 1 THEN 10 ELSE 0)
                   + (IF i <= Len(s) THEN s[i] ELSE 0)) \div 2],
           1, Len(s) + 1)

Twice(s) ==
    (IF s[1] >= 5 THEN <<1>> ELSE << >>)
        \o SubSeq([i \in 1..Len(s) |->
                      (2 * s[i] + (IF i < Len(s) /\ s[i + 1] >= 5 THEN 1 ELSE 0)) % 10],
                  1, Len(s))

\* Half applied n times, Twice applied n times
RECURSIVE Halve(_, _)
Halve(s, n) ==
    IF Len(s) = 0 \/ n = 0 THEN s
    ELSE IF n = 1 THEN Half(s)
    ELSE Halve(Halve(s, n \div 2), n - (n \div 2))

RECURSIVE Double(_, _)
Double(s, n) ==
    IF Len(s) = 0 \/ n = 0 THEN s
    ELSE IF n = 1 THEN Twice(s)
    ELSE Double(Double(s, n \div 2), n - (n \div 2))

\* The number of zeros s starts with
LeadingZeros(s) ==
    IF \A i \in 1..Len(s) : s[i] = 0 THEN Len(s)
    ELSE MinOrZero({i \in 1..Len(s) : s[i] # 0}) - 1

\* The digits of s from its first to its last digit that is not 0
Significant(s) ==
    IF \A i \in 1..Len(s) : s[i] = 0 THEN << >>
    ELSE SubSeq(s, LeadingZeros(s) + 1, MaxOrZero({i \in 1..Len(s) : s[i] # 0}))

\* x < y for decimals 0.digits * 10^exp whose digits start with a digit
\* that is not 0
MagLess(x, y) == x.exp < y.exp \/ (x.exp = y.exp /\ SeqLess(x.digits, y.digits))

\* A double has DBL_MANT_DIG bits, the least double above 0 is
\* 2^DBL_TRUE_MIN_EXP and every double is below 2^DBL_MAX_EXP
DBL_MANT_DIG == 53

DBL_TRUE_MIN_EXP == -1074

DBL_MAX_EXP == 1024

\* The digits after the point of 2^-j, for j = 1 .. DBL_MANT_DIG + 1
HALF_POWERS == [j \in 1..(DBL_MANT_DIG + 1) |-> Halve(<<5>>, j - 1)]

\* The digits after the point of 2^(DBL_TRUE_MIN_EXP - 1)
MIN_HALF_FRACTION == Halve(<<5>>, -DBL_TRUE_MIN_EXP)

\* 2^(DBL_TRUE_MIN_EXP - 1) = 0.247...e-323, half the least double above 0:
\* a decimal up to it rounds to zero
MIN_HALF ==
    [digits |-> Significant(MIN_HALF_FRACTION), exp |-> -LeadingZeros(MIN_HALF_FRACTION)]

\* 2^DBL_MAX_EXP - 2^(DBL_MAX_EXP - DBL_MANT_DIG - 1) = 0.1797...e309, half
\* way from the largest double to 2^DBL_MAX_EXP: a decimal from it on rounds
\* to inf.  It is (2^(DBL_MANT_DIG + 1) - 1) * 2^(DBL_MAX_EXP - DBL_MANT_DIG - 1).
MAX_HALF_DIGITS ==
    Double([i \in 1..Len(Double(<<1>>, DBL_MANT_DIG + 1)) |->
               Double(<<1>>, DBL_MANT_DIG + 1)[i]
                   - (IF i = Len(Double(<<1>>, DBL_MANT_DIG + 1)) THEN 1 ELSE 0)],
           DBL_MAX_EXP - DBL_MANT_DIG - 1)

MAX_HALF == [digits |-> MAX_HALF_DIGITS, exp |-> Len(MAX_HALF_DIGITS)]

\* The float of the decimal 0.digits * 10^exp, `digits` starting and ending
\* with a digit that is not 0 (or empty), as the correctly rounded float()
\* gives it: zero, inf, or a finite float
float_round(neg, digits, exp) ==
    IF digits = << >> THEN Finite(neg, << >>, 0)
    ELSE IF ~MagLess(Finite(neg, digits, exp), MAX_HALF) THEN Inf(neg)
    ELSE IF ~MagLess(MIN_HALF, Finite(neg, digits, exp)) THEN Finite(neg, << >>, 0)
    ELSE Finite(neg, digits, exp)

\* The float of the decimal 0.digits * 10^exp, zeros at either end allowed
float_decimal(neg, digits, exp) ==
    float_round(neg, Significant(digits), exp - LeadingZeros(digits))

\* The values of the digits of a digitpart
DigitVals(s) == [i \in 1..Len(DigitsOf(s)) |-> DigitVal(DigitsOf(s)[i])]

RECURSIVE Pow10(_)
Pow10(k) == IF k = 0 THEN 1 ELSE 10 * Pow10(k - 1)

\* The number a sequence of digits writes
RECURSIVE Number(_)
Number(digits) ==
    IF digits = << >> THEN 0
    ELSE Number(SubSeq(digits, 1, Len(digits) - 1)) * 10 + digits[Len(digits)]

\* The longest exponent whose number is computed
MaxExponentDigits == 7

\* The number of an exponent's digits.  An exponent of more than
\* MaxExponentDigits digits counts as 10^MaxExponentDigits: with it a text of
\* fewer characters than that is zero or inf whatever its other digits.
exponent_value(digits) ==
    IF Len(digits) - LeadingZeros(digits) > MaxExponentDigits THEN Pow10(MaxExponentDigits)
    ELSE Number(digits)

\* The float of a number text with the given sign, digits before and after the
\* point, and exponent text (has_exp: there is an exponent mark):
\*   [digitpart] ["." [digitpart]] [("e" | "E") ["+" | "-"] digitpart]
\* with a digit before or after the point
float_parts(sign, int, frac, has_exp, exp) ==
    IF /\ int = << >> \/ digitpart_ok(int)
       /\ frac = << >> \/ digitpart_ok(frac)
       /\ int # << >> \/ frac # << >>
       /\ has_exp => digitpart_ok(Unsigned(exp))
    THEN Some(float_decimal(sign < 0, DigitVals(int) \o DigitVals(frac),
                            Len(DigitsOf(int))
                                + (IF has_exp
                                   THEN SignOf(exp) * exponent_value(DigitVals(exp))
                                   ELSE 0)))
    ELSE NoneVal

\* The mantissa text is split at its first ".", at position pp (0: no point)
float_mantissa(sign, mant, pp, has_exp, exp) ==
    float_parts(sign,
                IF pp = 0 THEN mant ELSE SubSeq(mant, 1, pp - 1),
                IF pp = 0 THEN << >> ELSE SubSeq(mant, pp + 1, Len(mant)),
                has_exp, exp)

\* The number text is split at its first "e" or "E", at position ep (0: none)
float_exponent(sign, mant, ep, exp) ==
    float_mantissa(sign, mant, FirstIndex(mant, {"."}), ep # 0, exp)

float_number(sign, body, ep) ==
    float_exponent(sign,
                   IF ep = 0 THEN body ELSE SubSeq(body, 1, ep - 1),
                   ep,
                   IF ep = 0 THEN << >> ELSE SubSeq(body, ep + 1, Len(body)))

\* The text after the sign, and the same in upper case: "inf", "infinity" and
\* "nan" in any case, or a number
float_unsigned(sign, body, up) ==
    IF up = <<"N", "A", "N">> THEN Some(Nan)
    ELSE IF up \in {<<"I", "N", "F">>, <<"I", "N", "F", "I", "N", "I", "T", "Y">>}
    THEN Some(Inf(sign < 0))
    ELSE float_number(sign, body, FirstIndex(body, {"e", "E"}))

\* The text float() reads: whitespace skipped at both ends, then a sign may lead
float_text(text) == float_unsigned(SignOf(text), Unsigned(text), upper(Unsigned(text)))

\* float(value) for a string: Some(the float), or None where float raises
\* ValueError
float_parse(value) == float_text(strip(to_ascii(value)))

\* Whether float(value) returns
float_ok(value) == float_parse(value) # NoneVal

\* float(value) where float_ok(value)
float(value) == float_parse(value)[1]

\* The float of an integer
FloatOf(n) ==
    float_decimal(n < 0, Decimal(IF n < 0 THEN -n ELSE n), Len(Decimal(IF n < 0 THEN -n ELSE n)))

\* The binary exponent of k >= 1: 2^Log2(k) <= k < 2^(Log2(k) + 1)
RECURSIVE Log2(_)
Log2(k) == IF k < 2 THEN 0 ELSE 1 + Log2(k \div 2)

RECURSIVE IsPow2(_)
IsPow2(k) == k = 1 \/ (k % 2 = 0 /\ IsPow2(k \div 2))

\* 1 - 0.s, for digits s that end with a digit not 0
Complement(s) == [i \in 1..Len(s) |-> IF i = Len(s) THEN 10 - s[i] ELSE 9 - s[i]]

\* The decimal whole.frac, for the digits of a whole number (none for 0) and
\* of a fraction that starts with a digit not 0 where the whole number is 0
with_fraction(whole, frac) == [digits |-> whole \o frac, exp |-> Len(whole)]

\* The decimals that round to the double k, for a whole number k >= 1 below
\* 2^31, are those from lowest(k) to highest(k): half way to the double below
\* k and half way to the double above k (k has an even mantissa, so both ends
\* round to k).  The double above is 2^(Log2(k) + 1 - DBL_MANT_DIG) away; the
\* double below as far, or half as far where k is a power of 2.
lowest(k) ==
    with_fraction(IF k = 1 THEN << >> ELSE Decimal(k - 1),
                  Complement(HALF_POWERS[DBL_MANT_DIG - Log2(k) + (IF IsPow2(k) THEN 1 ELSE 0)]))

highest(k) == with_fraction(Decimal(k), HALF_POWERS[DBL_MANT_DIG - Log2(k)])

\* The sign of double(|f|) - k, for a finite float f that is not zero and a
\* whole number k >= 1
magnitude_cmp(f, k) ==
    IF MagLess(f, lowest(k)) THEN -1
    ELSE IF MagLess(highest(k), f) THEN 1
    ELSE 0

\* The sign of f - k for a finite float f and a whole number k
float_cmp(f, k) ==
    IF f.digits = << >> THEN (IF k > 0 THEN -1 ELSE IF k < 0 THEN 1 ELSE 0)
    ELSE IF k = 0 \/ f.neg # (k < 0) THEN (IF f.neg THEN -1 ELSE 1)
    ELSE IF f.neg THEN -magnitude_cmp(f, -k)
    ELSE magnitude_cmp(f, k)

\* strike >= f and strike <= f, for a strike that is a whole number and a
\* float f: every comparison with nan is false
strike_ge(strike, f) ==
    IF f.kind = "nan" THEN FALSE
    ELSE IF f.kind = "inf" THEN f.neg
    ELSE float_cmp(f, strike) <= 0

strike_le(strike, f) ==
    IF f.kind = "nan" THEN FALSE
    ELSE IF f.kind = "inf" THEN ~f.neg
    ELSE float_cmp(f, strike) >= 0

filter_strikesExclusive(records, min_strike, max_strike) ==
    LET byMin == IF min_strike # NoneVal
                 THEN SelectSeq(records, LAMBDA r : /\ strike_ge(r.strike, min_strike[1])
                                                    /\ ~strike_le(r.strike, min_strike[1]))
                 ELSE records
    IN  IF max_strike # NoneVal
        THEN SelectSeq(byMin, LAMBDA r : /\ strike_le(r.strike, max_strike[1])
                                         /\ ~strike_ge(r.strike, max_strike[1]))
        ELSE byMin

\* get_options_chain, "Filter by strike price if specified": min_strike and
\* max_strike are optional floats, and float() of a float is that float
filter_strikes(records, min_strike, max_strike) ==
    LET byMin == IF min_strike # NoneVal
                 THEN SelectSeq(records, LAMBDA r : strike_ge(r.strike, min_strike[1]))
                 ELSE records
    IN  IF max_strike # NoneVal
        THEN SelectSeq(byMin, LAMBDA r : strike_le(r.strike, max_strike[1]))
        ELSE byMin

\* get_options_chain, the value returned once the chain is fetched
chain_result(symbol, exp_date, opts, min_strike, max_strike) ==
    [symbol |-> symbol,
     expiration |-> exp_date,
     calls |-> filter_strikes(opts.calls, min_strike, max_strike),
     puts |-> filter_strikes(opts.puts, min_strike, max_strike)]

\* The retry loops, "except Exception": the last attempt raises or returns at
\* once, any other sleeps before the retry
error_delay(attempt_) == IF attempt_ = max_retries - 1 THEN 0 ELSE ERROR_DELAY

\* The retry loops, an attempt that answered empty: the sleep follows it,
\* whichever attempt it was
empty_delay(attempt_) == EMPTY_DELAY

\* ------------------------------------------------------------ cache_manager.py

cache_validInclusive(c, key, t, timeout_seconds) ==
    key \in DOMAIN c /\ t - c[key].timestamp <= timeout_seconds

\* CacheManager.cached.wrapper, "Check if cached data exists and is still valid":
\* cache_key in cls._cache and datetime.now() - timestamp < timedelta(seconds=timeout_seconds)
cache_valid(c, key, t, timeout_seconds) ==
    key \in DOMAIN c /\ t - c[key].timestamp < timeout_seconds

cache_storeIfAbsent(c, key, result, t) ==
    IF key \in DOMAIN c THEN c
    ELSE [k \in DOMAIN c \cup {key} |->
             IF k = key THEN [data |-> result, timestamp |-> t] ELSE c[k]]

cache_storeKeepsTimestamp(c, key, result, t) ==
    [k \in (DOMAIN c) \cup {key} |->
        IF k = key
        THEN [data |-> result, timestamp |-> IF key \in DOMAIN c THEN c[key].timestamp ELSE t]
        ELSE c[k]]

\* cls._cache[cache_key] = (result, datetime.now())
cache_store(c, key, result, t) ==
    [k \in (DOMAIN c) \cup {key} |->
        IF k = key THEN [data |-> result, timestamp |-> t] ELSE c[k]]

\* ------------------------------------------------------------ app.py

\* safe_float, where float(value) ended in `parsed`
safe_float_parsed(value, parsed) ==
    IF parsed = NoneVal THEN ValueErrorWith("Invalid number format: ", value)
    ELSE Return(parsed)

\* safe_float(value): value is an optional string
safe_float(value) ==
    IF value = NoneVal THEN Return(NoneVal)
    ELSE safe_float_parsed(value[1], float_parse(value[1]))

\* jsonify(body), status
Response(status, body) == [status |-> status, body |-> body]

\* handle_errors.wrapper: the response of a call of the wrapped view that ended
\* in `outcome`.  The 'error' of a 400 is str(e): the `error` and `detail`
\* fields of the body, in this order.
handle_errors(outcome) ==
    IF outcome.kind = "return" THEN outcome.value
    ELSE IF outcome.exc = "ValueError"
    THEN Response(400, [error |-> outcome.msg, detail |-> outcome.detail])
    ELSE Response(500, [error |-> "Internal server error", details |-> outcome.msg])

\* get_options after get_options_chain returned `data` (an optional result)
options_response(data) ==
    IF data = NoneVal
    THEN Response(404, [error |-> "No options data available"])
    ELSE Response(200, data[1])

\* get_options, the arguments of get_options_chain
fetch_arguments(symbol, expiration, min_strike, max_strike) ==
    [symbol |-> symbol, expiration |-> expiration,
     min_strike |-> min_strike, max_strike |-> max_strike]

\* get_options, "if expiration: expiration = validate_date(expiration)", where
\* validate_date ended in `validated`
read_expiration(symbol, validated, min_strike, max_strike) ==
    IF validated.kind = "raise" THEN validated
    ELSE Return(fetch_arguments(symbol, Some(validated.value), min_strike, max_strike))

\* get_options, where the two safe_float calls ended in min_strike and max_strike
read_strikes(symbol, args, today_, min_strike, max_strike) ==
    IF min_strike.kind = "raise" THEN min_strike
    ELSE IF max_strike.kind = "raise" THEN max_strike
    ELSE IF args.expiration # NoneVal /\ args.expiration[1] # << >>
    THEN read_expiration(symbol, validate_date(args.expiration[1], today_),
                         min_strike.value, max_strike.value)
    ELSE Return(fetch_arguments(symbol, NoneVal, min_strike.value, max_strike.value))

\* get_options between validate_symbol and get_options_chain: the query
\* parameters are read and validated.  The outcome is the arguments of
\* get_options_chain or the ValueError raised.
read_parameters(symbol, args, today_) ==
    read_strikes(symbol, args, today_, safe_float(args.min_strike), safe_float(args.max_strike))

\* ------------------------------------------------------------ bounds and inputs

\* The HTTP requests of one behaviour
MaxRequests == 2

\* The calls of the wrapped function of one behaviour of the cache alone
MaxCalls == 3

\* The longest list ticker.options answers a direct call with
MaxListLen == 3

\* The concurrent callers of the cache
NumThreads == 2

Threads == 1..NumThreads

\* The clock stops after this many time-to-live periods
MaxWindows == 2

MaxTime == MaxWindows * CACHE_TIMEOUT

Date(y, m, d) == [year |-> y, month |-> m, day |-> d]

\* The date string "YYYY-MM-DD" as the upstream writes it
DateStr(y, m, d) == strftime(Date(y, m, d))

\* The day the service starts
Todays == {Date(2024, 2, 1)}

SecondsPerDay == 24 * 60 * 60

\* The day and the time of day at which the endpoint starts: a midnight, and
\* the last second of 2024-02-14, so that a sleep of the retry loops carries
\* the request into 2024-02-15
Starts == {<<Date(2024, 2, 1), 0>>, <<Date(2024, 2, 14), SecondsPerDay - 1>>}

GET_OPTIONS == <<"g", "e", "t", "_", "o", "p", "t", "i", "o", "n", "s">>

GET_OPTIONS_CHAIN == GET_OPTIONS \o <<"_", "c", "h", "a", "i", "n">>

COMPUTE_FN == <<"c", "o", "m", "p", "u", "t", "e", "_", "f", "n">>

SYMBOL == <<"s", "y", "m", "b", "o", "l">>

\* <symbol> path segments of the requests
RequestSymbols == {<<"A", "B">>, <<"a", "b">>}

\* ?expiration= of the requests; the last is 2024-03-15 in Arabic-Indic digits
ExpirationParams ==
    {NoneVal, Some(DateStr(2024, 3, 15)), Some(DateStr(2024, 5, 17)), Some(DateStr(2024, 4, 1)),
     Some(<<"2", "0", "2", "4", "-", "0", "3", "-", "1", "5", "5">>),
     Some(<<"U+0662", "U+0660", "U+0662", "U+0664", "-", "0", "3", "-", "1", "U+0665">>)}

\* ?min_strike= and ?max_strike= of the requests
StrikeParams ==
    {<<NoneVal, NoneVal>>,
     <<Some(<<"9", "7", ".", "5">>), Some(<<"1", ".", "0", "5", "e", "2">>)>>,
     <<Some(<<"\r", "9", "U+0665", "U+3000">>), Some(<<"i", "n", "f">>)>>,
     <<Some(<<"x">>), NoneVal>>}

RequestArgs ==
    {[expiration |-> e, min_strike |-> k[1], max_strike |-> k[2]] :
        e \in ExpirationParams, k \in StrikeParams}

\* What one upstream attempt does: it raises, or it answers with a value
UpstreamError == [kind |-> "error"]

Answer(v) == [kind |-> "answer", value |-> v]

\* yf.Ticker(symbol).info: an empty or a non-empty dictionary
InfoAnswers == {UpstreamError, Answer(<< >>), Answer(<<"info">>)}

\* ticker.options: the expiration date strings; the last list has a month
\* of one digit and a day in Arabic-Indic digits
ExpirationLists ==
    {<<DateStr(2024, 3, 8), DateStr(2024, 3, 15), DateStr(2024, 4, 19)>>,
     <<DateStr(2024, 5, 17), DateStr(2024, 4, 19)>>,
     <<DateStr(2024, 2, 16), DateStr(2024, 3, 8)>>,
     <<<<"2", "0", "2", "4", "-", "3", "-", "1", "5">>, <<"2", "0", "2", "4", "-", "0", "4", "-", "1", "U+0669">>>>}

OptionsAnswers == {UpstreamError, Answer(<< >>)} \cup {Answer(l) : l \in ExpirationLists}

\* ticker.option_chain(exp_date): None, or the calls and puts of that expiration
OptionChain(exp_date) ==
    [calls |-> <<[strike |-> 90, id |-> <<"C", exp_date>>],
                 [strike |-> 100, id |-> <<"C", exp_date>>],
                 [strike |-> 110, id |-> <<"C", exp_date>>]>>,
     puts  |-> <<[strike |-> 95, id |-> <<"P", exp_date>>],
                 [strike |-> 105, id |-> <<"P", exp_date>>]>>]

ChainAnswers(exp_date) == {UpstreamError, Answer(NoneVal), Answer(Some(OptionChain(exp_date)))}

\* A chain whose records are not in strike order and repeat a strike
OptionChainUnordered(exp_date) ==
    [calls |-> <<[strike |-> 110, id |-> <<"C1", exp_date>>],
                 [strike |-> 90, id |-> <<"C2", exp_date>>],
                 [strike |-> 100, id |-> <<"C3", exp_date>>],
                 [strike |-> 100, id |-> <<"C4", exp_date>>]>>,
     puts  |-> <<[strike |-> 105, id |-> <<"P1", exp_date>>],
                 [strike |-> 95, id |-> <<"P2", exp_date>>],
                 [strike |-> 100, id |-> <<"P3", exp_date>>]>>]

FetchChainAnswers(exp_date) ==
    ChainAnswers(exp_date) \cup {Answer(Some(OptionChainUnordered(exp_date)))}

\* Direct calls of get_options_chain: the expiration argument, the strike
\* bounds, and the lists ticker.options answers with (every list of up to
\* MaxListLen different strings of ListDates, and the lists of OtherLists,
\* whose strings are dates written another way than strftime writes them)
FetchExpirations ==
    {NoneVal, Some(Date(2024, 1, 1)), Some(Date(2024, 3, 15)), Some(Date(2024, 4, 1)),
     Some(Date(2024, 6, 1))}

FetchStrikes ==
    {<<NoneVal, NoneVal>>, <<Some(FloatOf(95)), Some(FloatOf(105))>>,
     <<Some(FloatOf(100)), NoneVal>>, <<NoneVal, Some(FloatOf(100))>>,
     <<Some(FloatOf(100)), Some(FloatOf(100))>>, <<Some(FloatOf(105)), Some(FloatOf(95))>>,
     <<Some(float(<<"9", "7", ".", "5">>)), Some(float(<<"1", ".", "0", "5", "e", "2">>))>>,
     <<Some(float(<<"n", "a", "n">>)), Some(float(<<"i", "n", "f">>))>>,
     <<Some(float(<<"-", "1", "e", "-", "4", "0", "0">>)), Some(float(<<"1", "e", "-", "4", "0", "0">>))>>}

ListDates ==
    {DateStr(2024, 3, 8), DateStr(2024, 3, 15), DateStr(2024, 4, 19), DateStr(2024, 5, 17)}

OtherLists ==
    {<<<<"2", "0", "2", "4", "-", "3", "-", "1", "5">>, DateStr(2024, 4, 19)>>,
     <<<<"2", "0", "2", "4", "-", "4", "-", "1", "9">>>>,
     <<<<"2", "0", "2", "4", "-", "0", "4", "-", "1", "U+0669">>, DateStr(2024, 3, 15)>>}

FetchLists ==
    {l \in UNION {[1..n -> ListDates] : n \in 1..MaxListLen} :
        \A i, j \in 1..Len(l) : i # j => l[i] # l[j]} \cup OtherLists

FetchOptionsAnswers == {UpstreamError, Answer(<< >>)} \cup {Answer(l) : l \in FetchLists}

\* The functions called on their own: their names and their arguments
VALIDATE_DATE == <<"v", "a", "l", "i", "d", "a", "t", "e", "_", "d", "a", "t", "e">>

VALIDATE_SYMBOL ==
    <<"v", "a", "l", "i", "d", "a", "t", "e", "_", "s", "y", "m", "b", "o", "l">>

IS_THIRD_FRIDAY ==
    <<"i", "s", "_", "t", "h", "i", "r", "d", "_", "f", "r", "i", "d", "a", "y">>

FILTER_VALID_EXPIRATIONS ==
    <<"f", "i", "l", "t", "e", "r", "_", "v", "a", "l", "i", "d", "_",
      "e", "x", "p", "i", "r", "a", "t", "i", "o", "n", "s">>

\* datetime.now().date() of the calls of the functions on their own; 2024-03-15,
\* a third Friday, is 30 days after 2024-02-14
PureTodays == {Date(2024, 2, 1), Date(2024, 2, 14)}

\* Every date of the given months of year y
DatesOf(y, months) == {Date(y, m, d) : m \in months, d \in 1..31} \ {x \in {Date(y, m, d) : m \in months, d \in 1..31} : x.day > DaysInMonth(y, x.month)}

\* date_str of validate_date: every date of January to May 2024 as the string
\* strftime writes, dates written another way, and strings strptime refuses
DateArgs ==
    {strftime(d) : d \in DatesOf(2024, 1..5)}
        \cup {<<"2", "0", "2", "4", "-", "0", "2", "-", "3", "0">>,
              <<"1", "5", "/", "0", "3", "/", "2", "0", "2", "4">>,
              << >>,
              <<"2", "0", "2", "4", "-", "0", "3", "-", "1", "5", "5">>,
              <<"2", "0", "2", "4", "-", "0", "3", "-", "1", "5", "\n">>,
              <<"2", "0", "2", "4", "-", "1", "-", "3", "2">>,
              <<"2", "0", "2", "4", "-", "0", "3", "-", " ", "5">>,
              <<"2", "0", "2", "4", "-", "3", "-", "1", "5">>,
              <<"0", "0", "0", "0", "-", "0", "1", "-", "0", "1">>,
              <<"2", "0", "2", "4", "-", "1", "3", "-", "0", "1">>,
              <<"2", "0", "2", "4", "-", "0", "3", "-", "1", "5", "t", "i", "m", "e", " ", "d", "a", "t", "a">>,
              <<" ", "2", "0", "2", "4", "-", "0", "3", "-", "1", "5">>,
              <<"2", "0", "U+06F3", "4", "-", "0", "3", "-", "1", "7">>,
              <<"2", "0", "2", "4", "-", "0", "3", "-", "1", "U+0665">>,
              <<"2", "0", "2", "4", "-", "0", "U+0663", "-", "1", "5">>,
              <<"2", "0", "2", "4", "-", "4", "-", "1", "9">>,
              <<"U+FF12", "U+FF10", "U+FF12", "U+FF14", "-", "0", "4", "-", "1", "U+1D7E1">>}

\* date of is_third_friday: every date of FirstYear to LastYear
FirstYear == 2023

LastYear == 2025

FridayArgs == UNION {DatesOf(y, 1..12) : y \in FirstYear..LastYear}

\* symbol of validate_symbol: every string of up to MaxSymbolLen characters
MaxSymbolLen == 6

SymbolChars == {"A", "a", "1", "\n"}

SymbolArgs == UNION {[1..n -> SymbolChars] : n \in 0..MaxSymbolLen}

\* expirations of filter_valid_expirations: every list of up to MaxFilterLen
\* of these date strings, in any order, repetitions included
MaxFilterLen == 3

FilterDates ==
    {DateStr(2024, 2, 16), DateStr(2024, 3, 8), DateStr(2024, 3, 15), DateStr(2024, 3, 22),
     DateStr(2024, 4, 19), DateStr(2024, 5, 17),
     <<"2", "0", "2", "4", "-", "0", "2", "-", "3", "0">>, <<"2", "0", "2", "4", "-", "0", "3", "-", "1", "5", "5">>,
     <<"2", "0", "2", "4", "-", "3", "-", "1", "5">>, <<"2", "0", "2", "4", "-", "0", "4", "-", "1", "U+0669">>}

FilterArgs == UNION {[1..n -> FilterDates] : n \in 0..MaxFilterLen}

\* value of safe_float: None and these strings
SAFE_FLOAT == <<"s", "a", "f", "e", "_", "f", "l", "o", "a", "t">>

FloatArgs ==
    {NoneVal} \cup {Some(v) : v \in {
        <<"9", "5">>,
        <<"9", "7", ".", "5">>,
        <<"-", "1">>,
        <<"+", "5">>,
        <<"1", "e", "3">>,
        <<"1", "E", "-", "2">>,
        <<" ", "9", "5", " ">>,
        <<"\n", "5", "\t">>,
        <<"1", "_", "0", "0", "0">>,
        <<"1", "_", "_", "0">>,
        <<"_", "1">>,
        <<"1", "_">>,
        <<"n", "a", "n">>,
        <<"N", "a", "N">>,
        <<"i", "n", "f">>,
        <<"-", "i", "n", "f">>,
        <<"I", "n", "f", "i", "n", "i", "t", "y">>,
        <<"+", "n", "a", "n">>,
        <<>>,
        <<".">>,
        <<"1", ".">>,
        <<".", "5">>,
        <<"1", ".", "_", "5">>,
        <<"1", "e">>,
        <<"e", "3">>,
        <<"x">>,
        <<"1", " ", "0">>,
        <<"0", "x", "1", "0">>,
        <<"1", "e", "+", "2">>,
        <<"-", "-", "1">>,
        <<"1", ".", "5", ".", "2">>,
        <<"1", "e", "2", "e", "3">>,
        <<"1", "e", "-", "1", "1">>,
        <<"-", "1", "e", "-", "1", "1">>,
        <<"1", "e", "1", "1">>,
        <<"i", "n">>,
        <<"\r", "5">>,
        <<"5", "\f">>,
        <<VT, "5", NEL>>,
        <<NBSP, "-", "5">>,
        <<"5", NBSP, "5">>,
        <<"-", "0">>,
        <<"1", "e", "-", "4", "0", "0">>,
        <<"-", "1", "e", "-", "4", "0", "0">>,
        <<"1", "e", "-", "3", "2", "4">>,
        <<"3", "e", "-", "3", "2", "4">>,
        <<"1", "e", "3", "0", "8">>,
        <<"1", ".", "8", "e", "3", "0", "8">>,
        <<"1", "e", "9", "9", "9", "9", "9", "9", "9", "9", "9", "9">>,
        <<"9", "9", ".", "9", "9", "9", "9", "9", "9", "9", "9", "9", "9", "9", "9", "9", "9", "9", "9", "9">>,
        <<"U+1680", "5">>,
        <<"U+06F3", ".", "5">>,
        <<"U+2003", "-", "U+0661", "e", "U+FF13", "U+2029">>,
        <<"5", "U+200B">>,
        <<"U+0665", "U+0131">>}}

\* The arguments and results of the wrapped function of the cache alone
ComputeArgs == {<<"x">>, <<"y">>}

ComputeValues == {"v1", "v2"}

\* How long one computation takes, and how long the service stays idle
ComputeTimes == {0, 1}

ElapseTimes == {CACHE_TIMEOUT - 1, CACHE_TIMEOUT}

\* ------------------------------------------------------------ state

VARIABLES
    now,        \* datetime.now(), in seconds since the midnight that began `today`
    today,      \* the day the service started
    cache,      \* CacheManager._cache: key -> [data, timestamp]
    pc,         \* "idle", "compute", "info", "options", "chain", "done"
    call,       \* the call of the wrapped function in progress: func, args, kwargs, key
    req,        \* request.args of the request in progress
    frame,      \* the locals of get_options / get_options_chain
    attempt,    \* the loop variable of the retry loop in progress
    log,        \* the attempts of the latest retry loop: answer kind, seconds slept after it
    logOf,      \* the loop `log` belongs to: "info", "options", "chain" ("-": none yet)
    goc,        \* the outcome of get_options_chain
    ret,        \* the outcome of the wrapped function's wrapper
    resp,       \* the HTTP response
    hit,        \* the wrapper returned the cached data
    stored,     \* the wrapper wrote the cache entry
    lookupAt,   \* the clock when the wrapper looked the key up
    ncalls,     \* calls started
    hist,       \* the finished calls of the cache alone
    thread      \* the calls in progress of the concurrent callers of the cache: where
                \* each is, its key, the entry and the clock it read at the lookup,
                \* the wrapped function's result and the clock it read for the store

vars == <<now, today, cache, pc, call, req, frame, attempt, log, logOf,
          goc, ret, resp, hit, stored, lookupAt, ncalls, hist, thread>>

\* A caller that is not in the wrapper
IdleThread ==
    [pc |-> "idle", key |-> << >>, seen |-> << >>, at |-> 0, result |-> "-", stamp |-> 0]

NoThreads == [t \in Threads |-> IdleThread]

NoCall == [func |-> << >>, args |-> << >>, kwargs |-> << >>, key |-> << >>]

NoArgs == [expiration |-> NoneVal, min_strike |-> NoneVal, max_strike |-> NoneVal]

NoFrame == [symbol |-> << >>, expiration |-> NoneVal, min_strike |-> NoneVal,
            max_strike |-> NoneVal, expirations |-> << >>, valid_expirations |-> << >>,
            exp_date |-> << >>, filter_today |-> NoneVal]

NoOutcome == [kind |-> "-"]

NoResponse == Response(0, [error |-> "-"])

\* The state of a service that started on day d, t seconds after midnight
Start(d, t) ==
    /\ now = t
    /\ today = d
    /\ cache = << >>
    /\ pc = "idle"
    /\ call = NoCall
    /\ req = NoArgs
    /\ frame = NoFrame
    /\ attempt = 0
    /\ log = << >>
    /\ logOf = "-"
    /\ goc = NoOutcome
    /\ ret = NoOutcome
    /\ resp = NoResponse
    /\ hit = FALSE
    /\ stored = FALSE
    /\ lookupAt = 0
    /\ ncalls = 0
    /\ hist = << >>
    /\ thread = NoThreads

\* The cache alone does not read the date: its behaviours start at midnight
Init == \E d \in Todays : Start(d, 0)

\* The endpoint starts at one of the times of Starts
InitClock == \E s \in Starts : Start(s[1], s[2])

\* datetime.now().date() when the clock reads t
date_at(t) == AddDays(today, t \div SecondsPerDay)

\* ------------------------------------------------------------ the cache alone

\* One finished call of the wrapper, for the history
CallRecord(c, found, at, wasHit, outcome, t) ==
    [key |-> c.key, seen |-> found, at |-> at, hit |-> wasHit,
     returned |-> outcome.kind = "return",
     value |-> IF outcome.kind = "return" THEN outcome.value ELSE "-",
     storedAt |-> t]

\* wrapper(*args), up to the call of the wrapped function: the key is computed
\* and looked up; valid cached data is returned at once
Call(a) ==
    /\ pc \in {"idle", "done"}
    /\ ncalls < MaxCalls
    /\ LET key   == cache_key(COMPUTE_FN, <<a>>, << >>)
           c     == [func |-> COMPUTE_FN, args |-> <<a>>, kwargs |-> << >>, key |-> key]
           found == IF key \in DOMAIN cache THEN Some(cache[key]) ELSE NoneVal
       IN  /\ call' = c
           /\ ncalls' = ncalls + 1
           /\ lookupAt' = now
           /\ stored' = FALSE
           /\ IF cache_valid(cache, key, now, CACHE_TIMEOUT)
              THEN /\ hit' = TRUE
                   /\ ret' = Return(cache[key].data)
                   /\ pc' = "done"
                   /\ hist' = Append(hist, CallRecord(c, found, now, TRUE,
                                                      Return(cache[key].data), now))
              ELSE /\ hit' = FALSE
                   /\ ret' = NoOutcome
                   /\ pc' = "compute"
                   /\ hist' = hist
    /\ UNCHANGED thread
    /\ UNCHANGED <<now, today, cache, req, frame, attempt, log, logOf,
                   goc, resp>>

\* result = func(*args); cls._cache[cache_key] = (result, datetime.now()); return result
ComputeReturn(v, d) ==
    /\ pc = "compute"
    /\ now + d <= MaxTime
    /\ now' = now + d
    /\ cache' = cache_store(cache, call.key, v, now + d)
    /\ ret' = Return(v)
    /\ stored' = TRUE
    /\ pc' = "done"
    /\ hist' = Append(hist,
                      CallRecord(call, IF call.key \in DOMAIN cache
                                       THEN Some(cache[call.key]) ELSE NoneVal,
                                 lookupAt, FALSE, Return(v), now + d))
    /\ UNCHANGED thread
    /\ UNCHANGED <<today, call, req, frame, attempt, log, logOf,
                   goc, resp, hit, lookupAt, ncalls>>

\* func(*args) raises: the exception leaves the wrapper, nothing is stored
ComputeRaise(d) ==
    /\ pc = "compute"
    /\ now + d <= MaxTime
    /\ now' = now + d
    /\ ret' = ValueError("compute failed")
    /\ stored' = FALSE
    /\ pc' = "done"
    /\ hist' = Append(hist,
                      CallRecord(call, IF call.key \in DOMAIN cache
                                       THEN Some(cache[call.key]) ELSE NoneVal,
                                 lookupAt, FALSE, ValueError("compute failed"), now + d))
    /\ UNCHANGED thread
    /\ UNCHANGED <<today, cache, call, req, frame, attempt, log, logOf,
                   goc, resp, hit, lookupAt, ncalls>>

\* Time passes while no call is in progress
Tick(e) ==
    /\ pc \in {"idle", "done"}
    /\ now + e <= MaxTime
    /\ now' = now + e
    /\ UNCHANGED thread
    /\ UNCHANGED <<today, cache, pc, call, req, frame, attempt, log, logOf,
                   goc, ret, resp, hit, stored, lookupAt, ncalls, hist>>

NextCache ==
    \/ \E a \in ComputeArgs : Call(a)
    \/ \E v \in ComputeValues, d \in ComputeTimes : ComputeReturn(v, d)
    \/ \E d \in ComputeTimes : ComputeRaise(d)
    \/ \E e \in ElapseTimes : Tick(e)

SpecCache == Init /\ [][NextCache]_vars

\* ------------------------------------------------------------ claims: the cache

\* The call that last wrote the entry of hist[j]'s key before call j, if any
LastStore(j) ==
    {i \in 1..(j - 1) :
        /\ hist[i].key = hist[j].key /\ ~hist[i].hit /\ hist[i].returned
        /\ \A k \in (i + 1)..(j - 1) :
               ~(hist[k].key = hist[j].key /\ ~hist[k].hit /\ hist[k].returned)}

\* C1: a call is served from the cache only if the entry it found for its key
\* is younger than the time-to-live, and then it returns that entry's data; an
\* entry of age >= ttl is never served: the call invokes the wrapped function,
\* and once that returns the entry holds (fresh result, clock at the store).
C1_FreshOnly ==
    /\ \A j \in 1..Len(hist) :
        /\ hist[j].hit =>
              /\ hist[j].seen # NoneVal
              /\ hist[j].at - hist[j].seen[1].timestamp < CACHE_TIMEOUT
              /\ hist[j].value = hist[j].seen[1].data
        /\ (hist[j].seen # NoneVal
              /\ hist[j].at - hist[j].seen[1].timestamp >= CACHE_TIMEOUT) => ~hist[j].hit
    /\ \A j \in 1..Len(hist) :
        (/\ ~hist[j].hit /\ hist[j].returned
         /\ \A k \in (j + 1)..Len(hist) :
               ~(hist[k].key = hist[j].key /\ ~hist[k].hit /\ hist[k].returned))
        => /\ hist[j].key \in DOMAIN cache
           /\ cache[hist[j].key] = [data |-> hist[j].value, timestamp |-> hist[j].storedAt]

\* An expired entry was found, the function was invoked and the entry replaced,
\* and another call was served from the cache
C1_Witness ==
    /\ \E j \in 1..Len(hist) :
        /\ hist[j].seen # NoneVal
        /\ hist[j].at - hist[j].seen[1].timestamp >= CACHE_TIMEOUT
        /\ hist[j].returned
        /\ hist[j].value # hist[j].seen[1].data
        /\ hist[j].storedAt > hist[j].at
    /\ \E j \in 1..Len(hist) : hist[j].hit

\* C2: of two sequential calls with the same key, the second made less than the
\* time-to-live after the first stored its result, only the first invokes the
\* wrapped function and the second returns the stored value; a call made once
\* the time-to-live has elapsed invokes the function again.
C2_OncePerWindow ==
    \A j \in 1..Len(hist) : \A i \in LastStore(j) :
        /\ hist[j].hit <=> (hist[j].at - hist[i].storedAt < CACHE_TIMEOUT)
        /\ hist[j].hit => hist[j].value = hist[i].value

\* Three calls with one key: computed, served from the cache, computed again
C2_Witness ==
    /\ Len(hist) = 3
    /\ hist[1].key = hist[2].key /\ hist[2].key = hist[3].key
    /\ ~hist[1].hit /\ hist[1].returned
    /\ hist[2].hit
    /\ hist[2].at - hist[1].storedAt = CACHE_TIMEOUT - 1
    /\ ~hist[3].hit
    /\ hist[3].at - hist[1].storedAt >= CACHE_TIMEOUT

\* ------------------------------------------------------------ the endpoint

\* One attempt of a retry loop, for the log: what the upstream did ("error",
\* "empty" or "data") and how long the code slept after it
Attempt(outcome, slept) == [outcome |-> outcome, slept |-> slept]

\* The log once the loop `loop` has made one more attempt; the first attempt
\* of a loop starts its log
Logged(loop, outcome, slept) ==
    /\ logOf' = loop
    /\ log' = Append(IF logOf = loop THEN log ELSE << >>, Attempt(outcome, slept))

\* The wrapped view get_options ended in `outcome` at time t: the wrapper stores
\* what it returned (an exception passes through the wrapper, nothing is
\* stored), then handle_errors turns the outcome into the response
Finish(outcome, t) ==
    /\ pc' = "done"
    /\ now' = t
    /\ ret' = outcome
    /\ resp' = handle_errors(outcome)
    /\ stored' = (outcome.kind = "return")
    /\ cache' = IF outcome.kind = "return"
                THEN cache_store(cache, call.key, outcome.value, t)
                ELSE cache

\* get_options_chain ended in `outcome` at time t: get_options answers 404 for
\* None and the data otherwise; a direct caller gets the outcome itself
EndFetch(outcome, t) ==
    /\ goc' = outcome
    /\ IF call.func = GET_OPTIONS
       THEN Finish(IF outcome.kind = "raise" THEN outcome
                   ELSE Return(options_response(outcome.value)), t)
       ELSE /\ pc' = "done"
            /\ now' = t
            /\ ret' = outcome
            /\ UNCHANGED <<resp, stored, cache>>

\* GET /api/v1/options/<symbol>?...: the wrapper of CacheManager.cached looks
\* the key up; on a miss get_options starts and validate_symbol checks the format
Request(symbol, args) ==
    /\ pc \in {"idle", "done"}
    /\ ncalls < MaxRequests
    /\ LET kwargs == <<<<SYMBOL, symbol>>>>
           key    == cache_key(GET_OPTIONS, << >>, kwargs)
       IN  /\ call' = [func |-> GET_OPTIONS, args |-> << >>, kwargs |-> kwargs, key |-> key]
           /\ req' = args
           /\ ncalls' = ncalls + 1
           /\ lookupAt' = now
           /\ frame' = NoFrame
           /\ attempt' = 0
           /\ log' = << >>
           /\ logOf' = "-"
           /\ goc' = NoOutcome
           /\ IF cache_valid(cache, key, now, CACHE_TIMEOUT)
              THEN /\ hit' = TRUE
                   /\ pc' = "done"
                   /\ ret' = Return(cache[key].data)
                   /\ resp' = cache[key].data
                   /\ stored' = FALSE
                   /\ UNCHANGED <<now, cache>>
              ELSE /\ hit' = FALSE
                   /\ IF ~symbol_format_ok(symbol)
                      THEN Finish(ValueError("Invalid symbol format"), now)
                      ELSE /\ pc' = "info"
                           /\ ret' = NoOutcome
                           /\ resp' = NoResponse
                           /\ stored' = FALSE
                           /\ UNCHANGED <<now, cache>>
    /\ UNCHANGED thread
    /\ UNCHANGED <<today, hist>>

\* get_options at time t, where reading the parameters ended in `params`: the
\* ValueError is raised, or get_options_chain is called
StartFetchWith(t, params) ==
    IF params.kind = "raise"
    THEN /\ Finish(params, t)
         /\ UNCHANGED <<frame, attempt, goc>>
    ELSE /\ pc' = "options"
         /\ now' = t
         /\ attempt' = 0
         /\ frame' = [symbol |-> params.value.symbol,
                      expiration |-> params.value.expiration,
                      min_strike |-> params.value.min_strike,
                      max_strike |-> params.value.max_strike,
                      expirations |-> << >>,
                      valid_expirations |-> << >>,
                      exp_date |-> << >>,
                      filter_today |-> NoneVal]
         /\ UNCHANGED <<goc, ret, resp, stored, cache>>

\* validate_symbol returned at time t: get_options reads its parameters and
\* calls get_options_chain
StartFetch(t) ==
    StartFetchWith(t, read_parameters(upper(call.kwargs[1][2]), req, date_at(t)))

\* validate_symbol, one pass of "for attempt in range(max_retries)": ticker.info
\* raises, is empty, or is not empty
InfoAttempt(answer) ==
    /\ pc = "info"
    /\ LET last == attempt = max_retries - 1
       IN  IF answer.kind = "error"
           THEN IF last
                THEN /\ Logged("info", "error", error_delay(attempt))
                     /\ Finish(ValueError("Unable to verify symbol"), now + error_delay(attempt))
                     /\ UNCHANGED <<frame, attempt, goc>>
                ELSE /\ Logged("info", "error", error_delay(attempt))
                     /\ now' = now + error_delay(attempt)
                     /\ attempt' = attempt + 1
                     /\ UNCHANGED <<pc, frame, goc, ret, resp, stored, cache>>
           ELSE IF answer.value # << >>
                THEN /\ Logged("info", "data", 0)
                     /\ StartFetch(now)
                ELSE /\ Logged("info", "empty", empty_delay(attempt))
                     /\ IF last
                        THEN StartFetch(now + empty_delay(attempt))
                        ELSE /\ now' = now + empty_delay(attempt)
                             /\ attempt' = attempt + 1
                             /\ UNCHANGED <<pc, frame, goc, ret, resp, stored, cache>>
    /\ UNCHANGED thread
    /\ UNCHANGED <<today, call, req, hit, lookupAt, ncalls, hist>>

\* get_options_chain after the loop on ticker.options, where the monthly
\* filter ended in `filtered` on the day today_ and the selection in exp_date
Resolved(expirations, today_, filtered, exp_date) ==
    IF exp_date.kind = "raise"
    THEN /\ EndFetch(exp_date, now)
         /\ frame' = [frame EXCEPT !.expirations = expirations,
                                   !.valid_expirations = IF filtered.kind = "return"
                                                         THEN filtered.value ELSE << >>,
                                   !.filter_today = Some(today_)]
         /\ UNCHANGED attempt
    ELSE /\ pc' = "chain"
         /\ attempt' = 0
         /\ frame' = [frame EXCEPT !.expirations = expirations,
                                   !.valid_expirations = filtered.value,
                                   !.exp_date = exp_date.value,
                                   !.filter_today = Some(today_)]
         /\ UNCHANGED <<now, goc, ret, resp, stored, cache>>

\* ticker.options answered with `expirations` on the day today_: the monthly
\* filter, then the expiration selection
Filtered(expirations, today_) ==
    Resolved(expirations, today_, filter_valid_expirations(expirations, today_),
             resolve_expiration(filter_valid_expirations(expirations, today_),
                                frame.expiration))

\* get_options_chain, one pass of the loop on ticker.options; when the loop
\* ends with expirations, the monthly filter and the expiration selection follow
OptionsAttempt(answer) ==
    /\ pc = "options"
    /\ LET last == attempt = max_retries - 1
       IN  IF answer.kind = "error"
           THEN IF last
                THEN /\ Logged("options", "error", error_delay(attempt))
                     /\ EndFetch(Return(NoneVal), now + error_delay(attempt))
                     /\ UNCHANGED <<frame, attempt>>
                ELSE /\ Logged("options", "error", error_delay(attempt))
                     /\ now' = now + error_delay(attempt)
                     /\ attempt' = attempt + 1
                     /\ UNCHANGED <<pc, frame, goc, ret, resp, stored, cache>>
           ELSE IF answer.value # << >>
                THEN /\ Logged("options", "data", 0)
                     /\ Filtered(answer.value, date_at(now))
                ELSE /\ Logged("options", "empty", empty_delay(attempt))
                     /\ frame' = [frame EXCEPT !.expirations = answer.value]
                     /\ IF last
                        THEN /\ EndFetch(ValueError("No options available"),
                                         now + empty_delay(attempt))
                             /\ UNCHANGED attempt
                        ELSE /\ now' = now + empty_delay(attempt)
                             /\ attempt' = attempt + 1
                             /\ UNCHANGED <<pc, goc, ret, resp, stored, cache>>
    /\ UNCHANGED thread
    /\ UNCHANGED <<today, call, req, hit, lookupAt, ncalls, hist>>

\* get_options_chain, one pass of the loop on ticker.option_chain(exp_date);
\* when the loop ends with a chain, the strike filter and the result follow
ChainAttempt(answer) ==
    /\ pc = "chain"
    /\ LET last == attempt = max_retries - 1
       IN  IF answer.kind = "error"
           THEN IF last
                THEN /\ Logged("chain", "error", error_delay(attempt))
                     /\ EndFetch(Return(NoneVal), now + error_delay(attempt))
                     /\ UNCHANGED attempt
                ELSE /\ Logged("chain", "error", error_delay(attempt))
                     /\ now' = now + error_delay(attempt)
                     /\ attempt' = attempt + 1
                     /\ UNCHANGED <<pc, goc, ret, resp, stored, cache>>
           ELSE IF answer.value # NoneVal
                THEN /\ Logged("chain", "data", 0)
                     /\ EndFetch(Return(Some(chain_result(frame.symbol, frame.exp_date,
                                                          answer.value[1], frame.min_strike,
                                                          frame.max_strike))), now)
                     /\ UNCHANGED attempt
                ELSE /\ Logged("chain", "empty", empty_delay(attempt))
                     /\ IF last
                        THEN /\ EndFetch(ValueError("Failed to fetch options chain"),
                                         now + empty_delay(attempt))
                             /\ UNCHANGED attempt
                        ELSE /\ now' = now + empty_delay(attempt)
                             /\ attempt' = attempt + 1
                             /\ UNCHANGED <<pc, goc, ret, resp, stored, cache>>
    /\ UNCHANGED thread
    /\ UNCHANGED <<today, call, req, frame, hit, lookupAt, ncalls, hist>>

\* get_options_chain(symbol, expiration, min_strike, max_strike) called
\* directly.  The function keeps no state between calls, so a behaviour holds
\* one call.
DirectCall(symbol, expiration, strikes) ==
    /\ pc = "idle"
    /\ call' = [func |-> GET_OPTIONS_CHAIN, args |-> <<symbol>>, kwargs |-> << >>,
                key |-> << >>]
    /\ frame' = [symbol |-> symbol, expiration |-> expiration,
                 min_strike |-> strikes[1], max_strike |-> strikes[2],
                 expirations |-> << >>, valid_expirations |-> << >>, exp_date |-> << >>,
                 filter_today |-> NoneVal]
    /\ pc' = "options"
    /\ attempt' = 0
    /\ ncalls' = ncalls + 1
    /\ UNCHANGED thread
    /\ UNCHANGED <<now, today, cache, req, log, logOf, goc, ret, resp, hit, stored,
                   lookupAt, hist>>

NextFetch ==
    \/ \E expiration \in FetchExpirations, strikes \in FetchStrikes :
           DirectCall(<<"A", "B">>, expiration, strikes)
    \/ \E answer \in FetchOptionsAnswers : OptionsAttempt(answer)
    \/ \E answer \in FetchChainAnswers(frame.exp_date) : ChainAttempt(answer)

SpecFetch == InitClock /\ [][NextFetch]_vars

Next ==
    \/ \E symbol \in RequestSymbols, args \in RequestArgs : Request(symbol, args)
    \/ \E answer \in InfoAnswers : InfoAttempt(answer)
    \/ \E answer \in OptionsAnswers : OptionsAttempt(answer)
    \/ \E answer \in ChainAnswers(frame.exp_date) : ChainAttempt(answer)

Spec == InitClock /\ [][Next]_vars

\* ------------------------------------------------------------ claims: the endpoint

\* get_options_chain ended with a failure: it raised, or it returned None
FetchFailed ==
    /\ goc # NoOutcome
    /\ IF goc.kind = "raise" THEN TRUE ELSE goc.value = NoneVal

\* The retry loop `loop` has ended and none of its attempts got data (a loop
\* ends at its first attempt with data, so the last attempt tells)
Exhausted(loop) ==
    /\ logOf = loop
    /\ pc # loop
    /\ log # << >>
    /\ log[Len(log)].outcome # "data"

\* C3: a request whose fetch failed (get_options_chain raised or returned None)
\* writes no cache entry, and a request served from the cache is never served
\* a failure.
C3_NoNegativeCaching ==
    /\ (pc = "done" /\ ~hit /\ FetchFailed) => ~stored
    /\ (pc = "done" /\ hit) => resp.status = 200

\* C4: get_options_chain is called only after an attempt of validate_symbol
\* got a non-empty info answer.
C4_VerifiedBeforeFetch ==
    (call.func = GET_OPTIONS /\ pc = "options" /\ logOf = "info")
        => \E i \in 1..Len(log) : log[i].outcome = "data"

\* C5: validate_symbol makes at most 3 info attempts, and when no attempt got
\* non-empty info it raises "Unable to verify symbol": it does not return the
\* symbol.
C5_UnverifiedFails ==
    (logOf = "info" /\ pc # "info")
        => /\ Len(log) <= 3
           /\ (\A i \in 1..Len(log) : log[i].outcome # "data")
                  => /\ pc = "done"
                     /\ ret = ValueError("Unable to verify symbol")

\* C6: each of the three retry loops, when every attempt fails, makes exactly
\* 3 attempts and its operation ends in a failure: validate_symbol raises,
\* get_options_chain raises or returns None.
C6_ExactlyThreeThenFailure ==
    /\ Exhausted("info") => (Len(log) = 3 /\ pc = "done" /\ ret.kind = "raise")
    /\ Exhausted("options") => (Len(log) = 3 /\ pc = "done" /\ FetchFailed)
    /\ Exhausted("chain") => (Len(log) = 3 /\ pc = "done" /\ FetchFailed)

\* A step that makes one attempt of a retry loop
AttemptStep == <<log, logOf>>' # <<log, logOf>> /\ log' # << >>

\* C7: in every retry loop a failed attempt of either kind (an upstream
\* error, or an empty answer) is followed by a delay of 1 second when it was
\* the first attempt and of 2 seconds when it was the second, and by no delay
\* when it was the third; an attempt that got data is followed by none.
C7_DelayByPosition ==
    [][AttemptStep =>
          LET n == Len(log')
              a == log'[n]
          IN  now' - now = IF a.outcome = "data" THEN 0
                           ELSE IF n = 1 THEN 1
                           ELSE IF n = 2 THEN 2
                           ELSE 0]_vars

\* C8: when the third request of the expiration list fails, by an error or by
\* an empty list, get_options_chain raises "No options available" and asks for
\* no option chain.
C8_NoExpirationsRaises ==
    Exhausted("options")
        => /\ Len(log) = 3
           /\ pc = "done"
           /\ goc = ValueError("No options available")

\* C9: when the option chain request is exhausted after 3 attempts,
\* get_options_chain raises "Failed to fetch options chain", whichever of the
\* two kinds each failed attempt was, and an attempt that got no chain is
\* followed by the delay an error at its position is followed by.
C9_ChainExhaustionRaises ==
    /\ Exhausted("chain")
           => /\ Len(log) = 3
              /\ pc = "done"
              /\ goc = ValueError("Failed to fetch options chain")
    /\ logOf = "chain"
           => \A i \in 1..Len(log) :
                  log[i].outcome = "empty" => log[i].slept = error_delay(i - 1)

\* The dates of the valid expirations seen by the expiration selection
ValidDates == {strptime(frame.valid_expirations[i]) : i \in 1..Len(frame.valid_expirations)}

\* The valid dates on or after the requested date
FutureDates == {d \in ValidDates : ~DateLess(d, frame.expiration[1])}

\* The expiration selection ended in an error: get_options_chain raised before
\* any option chain request
SelectionFailed ==
    /\ pc = "done"
    /\ logOf = "options"
    /\ frame.exp_date = << >>
    /\ goc # NoOutcome
    /\ goc.kind = "raise"

\* The expiration selection chose the date d, and the option chain is
\* requested for it
Selected(d) ==
    /\ pc \in {"chain", "done"}
    /\ strptime_ok(frame.exp_date)
    /\ strptime(frame.exp_date) = d
    /\ pc = "done" => logOf = "chain"

\* C10: once the monthly filter left a non-empty list, get_options_chain uses
\* the earliest valid date when no expiration is requested, the requested date
\* when it is in the list, otherwise the least valid date on or after the
\* requested date; when there is none it raises and requests no option chain.
C10_ExpirationResolution ==
    frame.valid_expirations # << >> =>
        IF frame.expiration = NoneVal
        THEN \E d \in ValidDates :
                 /\ \A e \in ValidDates : ~DateLess(e, d)
                 /\ Selected(d)
        ELSE IF frame.expiration[1] \in ValidDates
        THEN Selected(frame.expiration[1])
        ELSE IF FutureDates # {}
        THEN \E d \in FutureDates :
                 /\ \A e \in FutureDates : ~DateLess(e, d)
                 /\ Selected(d)
        ELSE SelectionFailed

\* get_options_chain returned its result dictionary
FetchSucceeded ==
    /\ pc = "done"
    /\ goc # NoOutcome
    /\ IF goc.kind = "return" THEN goc.value # NoneVal ELSE FALSE

\* d is a Friday and the third Friday of its month: exactly three Fridays of
\* the month fall on or before it
ThirdFriday(d) ==
    /\ Weekday(d) = 4
    /\ Cardinality({k \in 1..d.day : Weekday(Date(d.year, d.month, k)) = 4}) = 3

\* C11: every result get_options_chain returns carries an expiration that is
\* one of the strings the upstream listed and one of those its monthly filter
\* kept, the date of a third Friday 30 days or more after the day of the
\* result, and the option chain in the result is the one requested for that
\* expiration.
C11_ExpirationFromUpstream ==
    FetchSucceeded =>
        LET r == goc.value[1]
            d == strptime(r.expiration)
        IN  /\ InSeq(r.expiration, frame.expirations)
            /\ InSeq(r.expiration, frame.valid_expirations)
            /\ ThirdFriday(d)
            /\ ToOrdinal(d) - ToOrdinal(date_at(now)) >= 30
            /\ frame.exp_date = r.expiration
            /\ \A i \in 1..Len(r.calls) : r.calls[i].id[2] = r.expiration
            /\ \A i \in 1..Len(r.puts) : r.puts[i].id[2] = r.expiration

\* strike >= f and strike <= f by cross-multiplication, for the bounds of
\* FetchStrikes, whose decimals are short enough to be doubles: f is
\* Mantissa(f) * 10^Exponent(f), and nan compares false with every strike
Mantissa(f) == (IF f.neg THEN -1 ELSE 1) * Number(f.digits)

Exponent(f) == f.exp - Len(f.digits)

Scale(k) == Pow10(IF k > 0 THEN k ELSE 0)

AtLeast(strike, f) ==
    /\ f.kind # "nan"
    /\ IF f.kind = "inf" THEN f.neg
       ELSE strike * Scale(-Exponent(f)) >= Mantissa(f) * Scale(Exponent(f))

AtMost(strike, f) ==
    /\ f.kind # "nan"
    /\ IF f.kind = "inf" THEN ~f.neg
       ELSE strike * Scale(-Exponent(f)) <= Mantissa(f) * Scale(Exponent(f))

\* The records of `records` within the given bounds, in their order
RECURSIVE Within(_, _, _)
Within(records, lo, hi) ==
    IF records = << >> THEN << >>
    ELSE LET r == Head(records)
             keep == /\ (lo # NoneVal => AtLeast(r.strike, lo[1]))
                     /\ (hi # NoneVal => AtMost(r.strike, hi[1]))
         IN  (IF keep THEN <<r>> ELSE << >>) \o Within(Tail(records), lo, hi)

\* C12: the calls of a result are exactly the upstream's call records with
\* min_strike <= strike <= max_strike (each bound only when given, both
\* inclusive), in the upstream's order, and the same for the puts; without
\* bounds both are the upstream's sequences.
C12_StrikeFilter ==
    FetchSucceeded =>
        \E c \in {OptionChain(frame.exp_date), OptionChainUnordered(frame.exp_date)} :
            /\ goc.value[1].calls = Within(c.calls, frame.min_strike, frame.max_strike)
            /\ goc.value[1].puts = Within(c.puts, frame.min_strike, frame.max_strike)
            /\ (frame.min_strike = NoneVal /\ frame.max_strike = NoneVal)
                   => (goc.value[1].calls = c.calls /\ goc.value[1].puts = c.puts)

\* Strikes 90, 100, 110 with min_strike 95 and max_strike 105 give the record
\* of strike 100 alone; the puts 95 and 105 are both kept
C12_Witness ==
    /\ FetchSucceeded
    /\ frame.min_strike = Some(FloatOf(95))
    /\ frame.max_strike = Some(FloatOf(105))
    /\ goc.value[1].calls = <<[strike |-> 100, id |-> <<"C", frame.exp_date>>]>>
    /\ Len(goc.value[1].puts) = 2

\* ------------------------------------------------------------ the functions alone

InitPure ==
    /\ now = 0
    /\ today \in PureTodays
    /\ cache = << >>
    /\ pc = "idle"
    /\ call = NoCall
    /\ req = NoArgs
    /\ frame = NoFrame
    /\ attempt = 0
    /\ log = << >>
    /\ logOf = "-"
    /\ goc = NoOutcome
    /\ ret = NoOutcome
    /\ resp = NoResponse
    /\ hit = FALSE
    /\ stored = FALSE
    /\ lookupAt = 0
    /\ ncalls = 0
    /\ hist = << >>
    /\ thread = NoThreads

\* func(arg) is called and ends in `outcome`, leaving the function at `where`
PureCall(func, arg, outcome, where) ==
    /\ pc = "idle"
    /\ call' = [func |-> func, args |-> <<arg>>, kwargs |-> << >>, key |-> << >>]
    /\ ret' = outcome
    /\ pc' = where
    /\ ncalls' = ncalls + 1
    /\ UNCHANGED thread
    /\ UNCHANGED <<now, today, cache, req, frame, attempt, log, logOf, goc, resp, hit,
                   stored, lookupAt, hist>>

\* validate_date(date_str)
ValidateDate(date_str) ==
    PureCall(VALIDATE_DATE, date_str, validate_date(date_str, today), "done")

\* validate_symbol(symbol), the format check: the call raises, or it goes on to
\* the retry loop on ticker.info
ValidateSymbol(symbol) ==
    /\ pc = "idle"
    /\ IF ~symbol_format_ok(symbol)
       THEN PureCall(VALIDATE_SYMBOL, symbol, ValueError("Invalid symbol format"), "done")
       ELSE PureCall(VALIDATE_SYMBOL, symbol, NoOutcome, "info")

\* is_third_friday(date)
IsThirdFriday(date) ==
    PureCall(IS_THIRD_FRIDAY, date, Return(is_third_friday(date)), "done")

\* filter_valid_expirations(expirations)
FilterValidExpirations(expirations) ==
    PureCall(FILTER_VALID_EXPIRATIONS, expirations,
             filter_valid_expirations(expirations, today), "done")

\* safe_float(value)
SafeFloat(value) ==
    PureCall(SAFE_FLOAT, value, safe_float(value), "done")

\* One call per behaviour: the functions keep no state between calls
NextPure ==
    \/ pc = "idle" /\ \E date_str \in DateArgs : ValidateDate(date_str)
    \/ pc = "idle" /\ \E symbol \in SymbolArgs : ValidateSymbol(symbol)
    \/ pc = "idle" /\ \E date \in FridayArgs : IsThirdFriday(date)
    \/ pc = "idle" /\ \E expirations \in FilterArgs : FilterValidExpirations(expirations)
    \/ pc = "idle" /\ \E value \in FloatArgs : SafeFloat(value)

SpecPure == InitPure /\ [][NextPure]_vars

\* ------------------------------------------------------------ claims: the functions

\* The call func(arg) has been made
Called(func) == call.func = func /\ pc # "idle"

\* C13: for a date string that parses, validate_date raises "cannot be in the
\* past" when the date is before today, "at least 30 days" when it is today or
\* later and before today + 30 days, "Only monthly options" when it is today +
\* 30 days or later and not the third Friday of its month, and returns the
\* date otherwise.
C13_DateOutcome ==
    (Called(VALIDATE_DATE) /\ strptime_ok(call.args[1])) =>
        LET d     == strptime(call.args[1])
            ahead == ToOrdinal(d) - ToOrdinal(today)
        IN  /\ pc = "done"
            /\ ret = IF ahead < 0
                     THEN ValueError("Expiration date cannot be in the past")
                     ELSE IF ahead < 30
                     THEN ValueError("Expiration date must be at least 30 days in the future")
                     ELSE IF ~ThirdFriday(d)
                     THEN ValueError("Only monthly options (third Friday of each month) are supported")
                     ELSE Return(d)

\* 2024-03-15, a third Friday exactly 30 days after today, is returned
C13_Witness ==
    /\ Called(VALIDATE_DATE)
    /\ today = Date(2024, 2, 14)
    /\ call.args[1] = DateStr(2024, 3, 15)
    /\ ret = Return(Date(2024, 3, 15))

\* C14: validate_symbol passes the format check for the strings of 1 to 5
\* uppercase letters and for no other string; for every other string it raises
\* "Invalid symbol format" before any upstream request.
C14_FormatCheck ==
    Called(VALIDATE_SYMBOL) =>
        LET symbol == call.args[1]
            wellFormed == /\ Len(symbol) \in 1..5
                          /\ \A i \in 1..Len(symbol) : symbol[i] \in UpperSet
        IN  IF wellFormed
            THEN pc = "info"
            ELSE /\ pc = "done"
                 /\ ret = ValueError("Invalid symbol format")
                 /\ log = << >>

\* C16: is_third_friday(date) is true exactly when date is a Friday and the
\* third Friday of its month, and every month has a third Friday.
C16_ThirdFriday ==
    Called(IS_THIRD_FRIDAY) =>
        LET date == call.args[1]
        IN  /\ pc = "done"
            /\ ret = Return(ThirdFriday(date))
            /\ \E k \in 1..DaysInMonth(date.year, date.month) :
                   ThirdFriday(Date(date.year, date.month, k))

\* is_third_friday is true of 2024-03-15
C16_Witness ==
    /\ Called(IS_THIRD_FRIDAY)
    /\ call.args[1] = Date(2024, 3, 15)
    /\ ret = Return(TRUE)

\* How often x occurs in the list s
Count(x, s) == Cardinality({i \in 1..Len(s) : s[i] = x})

\* C17: for a list of date strings, filter_valid_expirations returns the input
\* strings whose date is today + 30 days or later and a third Friday, each as
\* often as the input holds it and nothing else, in ascending order of their
\* dates.
C17_FilterSorted ==
    (/\ Called(FILTER_VALID_EXPIRATIONS)
     /\ \A i \in 1..Len(call.args[1]) : strptime_ok(call.args[1][i])) =>
        LET input == call.args[1]
            kept(x) == /\ ToOrdinal(strptime(x)) - ToOrdinal(today) >= 30
                       /\ ThirdFriday(strptime(x))
        IN  /\ pc = "done"
            /\ ret.kind = "return"
            /\ \A i \in 1..Len(ret.value) : InSeq(ret.value[i], input)
            /\ \A i \in 1..Len(input) :
                   Count(input[i], ret.value) = IF kept(input[i]) THEN Count(input[i], input)
                                                ELSE 0
            /\ \A i, j \in 1..Len(ret.value) :
                   i < j => ToOrdinal(strptime(ret.value[i])) <= ToOrdinal(strptime(ret.value[j]))

\* ------------------------------------------------------------ claims: the responses

\* A request ended in a validation failure: get_options raised before it
\* called get_options_chain
ValidationFailed ==
    /\ call.func = GET_OPTIONS
    /\ pc = "done"
    /\ ~hit
    /\ goc = NoOutcome
    /\ ret.kind = "raise"

\* C15: a request that fails in validation is answered 400; a request whose
\* fetch fails (no expirations, no valid expirations, chain not fetched) is
\* answered 404 or 500, never 400.
C15_StatusMapping ==
    /\ ValidationFailed => resp.status = 400
    /\ (call.func = GET_OPTIONS /\ pc = "done" /\ ~hit /\ FetchFailed)
           => resp.status \in {404, 500}

\* C19: a request served from the cache right after the request that stored
\* the entry has the query parameters of that request.
C19_SameRequest ==
    [][(stored /\ hit' /\ ncalls' = ncalls + 1 /\ call'.key = call.key)
           => req' = req]_vars

\* C20: a request ends after at most 3 attempts of each retry loop, the loops
\* in the order info, options, chain; a loop makes no attempt after one with
\* data; a loop is started only after an attempt of the loop before it got data;
\* while a loop runs, fewer than 3 attempts have been made, as many as the loop
\* has logged.
C20_BoundedStages ==
    /\ Len(log) <= 3
    /\ \A i \in 1..(Len(log) - 1) : log[i].outcome # "data"
    /\ pc = "info" => (logOf \in {"-", "info"} /\ attempt < 3)
    /\ pc = "options" => (logOf \in {"-", "info", "options"} /\ attempt < 3)
    /\ pc = "chain" => (logOf \in {"options", "chain"} /\ attempt < 3)
    /\ pc \in {"info", "options", "chain"} => attempt = IF logOf = pc THEN Len(log) ELSE 0
    /\ (pc = "options" /\ logOf = "info") => log[Len(log)].outcome = "data"
    /\ (pc = "chain" /\ logOf = "options") => log[Len(log)].outcome = "data"

\* ------------------------------------------------------------ concurrent callers

\* The wrapper takes no lock: between any two of its accesses to the shared
\* dictionary and to the clock another caller can run.  Each action below is
\* one such access.

\* Caller t enters wrapper(a): the key is computed and tested,
\* "cache_key in cls._cache" (lines 22 and 25)
ThreadCall(t, a) ==
    /\ thread[t].pc \in {"idle", "done"}
    /\ ncalls < MaxCalls
    /\ LET key == cache_key(COMPUTE_FN, <<a>>, << >>)
       IN  thread' = [thread EXCEPT ![t] =
                         [IdleThread EXCEPT !.key = key,
                                            !.pc = IF key \in DOMAIN cache
                                                   THEN "read" ELSE "compute"]]
    /\ ncalls' = ncalls + 1
    /\ UNCHANGED <<now, today, cache, pc, call, req, frame, attempt, log, logOf,
                   goc, ret, resp, hit, stored, lookupAt, hist>>

\* data, timestamp = cls._cache[cache_key] (line 26): the entry as it is now
ThreadRead(t) ==
    /\ thread[t].pc = "read"
    /\ thread' = [thread EXCEPT ![t].seen = Some(cache[thread[t].key]), ![t].pc = "test"]
    /\ UNCHANGED <<now, today, cache, pc, call, req, frame, attempt, log, logOf,
                   goc, ret, resp, hit, stored, lookupAt, ncalls, hist>>

\* datetime.now() - timestamp < timedelta(seconds=timeout_seconds) (line 27),
\* on the entry that was read: the data read is returned at once, or the
\* caller goes on to the wrapped function
ThreadTest(t) ==
    /\ thread[t].pc = "test"
    /\ LET entry == [thread[t] EXCEPT !.at = now]
           read  == [k \in {entry.key} |-> entry.seen[1]]
       IN  IF cache_valid(read, entry.key, now, CACHE_TIMEOUT)
           THEN /\ thread' = [thread EXCEPT ![t] = [entry EXCEPT !.pc = "done"]]
                /\ hist' = Append(hist, CallRecord(entry, entry.seen, now, TRUE,
                                                   Return(entry.seen[1].data), now))
           ELSE /\ thread' = [thread EXCEPT ![t] = [entry EXCEPT !.pc = "compute"]]
                /\ hist' = hist
    /\ UNCHANGED <<now, today, cache, pc, call, req, frame, attempt, log, logOf,
                   goc, ret, resp, hit, stored, lookupAt, ncalls>>

\* The wrapped function of caller t returns v after d more seconds (line 31)
ThreadReturn(t, v, d) ==
    /\ thread[t].pc = "compute"
    /\ now + d <= MaxTime
    /\ now' = now + d
    /\ thread' = [thread EXCEPT ![t].result = v, ![t].pc = "stamp"]
    /\ UNCHANGED <<today, cache, pc, call, req, frame, attempt, log, logOf,
                   goc, ret, resp, hit, stored, lookupAt, ncalls, hist>>

\* datetime.now(), the right-hand side of line 32
ThreadStamp(t) ==
    /\ thread[t].pc = "stamp"
    /\ thread' = [thread EXCEPT ![t].stamp = now, ![t].pc = "store"]
    /\ UNCHANGED <<now, today, cache, pc, call, req, frame, attempt, log, logOf,
                   goc, ret, resp, hit, stored, lookupAt, ncalls, hist>>

\* cls._cache[cache_key] = (result, <the clock as read>); return result
\* (lines 32 and 33)
ThreadStore(t) ==
    /\ thread[t].pc = "store"
    /\ cache' = cache_store(cache, thread[t].key, thread[t].result, thread[t].stamp)
    /\ hist' = Append(hist, CallRecord(thread[t], thread[t].seen, thread[t].at, FALSE,
                                       Return(thread[t].result), thread[t].stamp))
    /\ thread' = [thread EXCEPT ![t].pc = "done"]
    /\ UNCHANGED <<now, today, pc, call, req, frame, attempt, log, logOf,
                   goc, ret, resp, hit, stored, lookupAt, ncalls>>

\* The wrapped function of caller t raises: nothing is stored
ThreadRaise(t) ==
    /\ thread[t].pc = "compute"
    /\ hist' = Append(hist, CallRecord(thread[t], thread[t].seen, thread[t].at, FALSE,
                                       ValueError("compute failed"), now))
    /\ thread' = [thread EXCEPT ![t].pc = "done"]
    /\ UNCHANGED <<now, today, cache, pc, call, req, frame, attempt, log, logOf,
                   goc, ret, resp, hit, stored, lookupAt, ncalls>>

NextThreads ==
    \/ \E t \in Threads, a \in ComputeArgs : ThreadCall(t, a)
    \/ \E t \in Threads : ThreadRead(t)
    \/ \E t \in Threads : ThreadTest(t)
    \/ \E t \in Threads, v \in ComputeValues, d \in ComputeTimes : ThreadReturn(t, v, d)
    \/ \E t \in Threads : ThreadStamp(t)
    \/ \E t \in Threads : ThreadStore(t)
    \/ \E t \in Threads : ThreadRaise(t)
    \/ \E e \in ElapseTimes : Tick(e)

SpecThreads == Init /\ [][NextThreads]_vars

\* ------------------------------------------------------------ claims: concurrent callers

\* The finished calls that invoked the wrapped function and stored its result
\* under the key k, in the order of their stores
Stores(k) == SelectSeq(hist, LAMBDA r : r.key = k /\ ~r.hit /\ r.returned)

\* The callers that are past the lookup, on their way to the store
Computing == {t \in Threads : thread[t].pc \in {"compute", "stamp", "store"}}

\* C18: the wrapper takes no lock and joins no call in progress.  Whether a
\* call invokes the wrapped function depends only on what the call itself
\* read: it does whenever it found no entry, or the entry it read was expired
\* on the clock it read, also while another call with the same key is
\* computing or has stored since; and every result is written over whatever
\* the entry holds, so the entry of a key is the result, with the clock
\* reading, of the call that wrote last.
C18_NoSingleFlight ==
    /\ \A j \in 1..Len(hist) :
           hist[j].hit <=> /\ hist[j].seen # NoneVal
                           /\ hist[j].at - hist[j].seen[1].timestamp < CACHE_TIMEOUT
    /\ \A t \in Computing :
           \/ thread[t].seen = NoneVal
           \/ thread[t].at - thread[t].seen[1].timestamp >= CACHE_TIMEOUT
    /\ \A j \in 1..Len(hist) :
           LET w == Stores(hist[j].key)
           IN  w # << >> =>
                   /\ hist[j].key \in DOMAIN cache
                   /\ cache[hist[j].key] = [data |-> w[Len(w)].value,
                                            timestamp |-> w[Len(w)].storedAt]

\* Two calls with one key both found no entry and both invoked the wrapped
\* function, with different results, less than a time-to-live apart; both
\* wrote, and the entry is the result of the one that wrote later
C18_Witness ==
    /\ Len(hist) = 2
    /\ hist[1].key = hist[2].key
    /\ ~hist[1].hit /\ hist[1].returned /\ hist[1].seen = NoneVal
    /\ ~hist[2].hit /\ hist[2].returned /\ hist[2].seen = NoneVal
    /\ hist[2].storedAt = hist[1].storedAt + 1
    /\ hist[2].value # hist[1].value
    /\ cache[hist[2].key] = [data |-> hist[2].value, timestamp |-> hist[2].storedAt]
====
